---- MODULE Spec2Model ----
(***************************************************************************)
(* Bartender: the Express/PostgreSQL persistence service (server index.js) *)
(* as a state machine.  Every request handler is a process that advances   *)
(* from one await to the next; the tables hold the committed rows and each *)
(* pooled connection holds the uncommitted writes of its transaction.      *)
(* Strings are sequences of one-character strings so that trim() and       *)
(* LOWER() are computed, not assumed.                                      *)
(***************************************************************************)
EXTENDS Integers, Sequences, FiniteSets, TLC

\* ------------------------------------------------------------------ bounds
MaxNameLen == 2
MaxIngs == 2
MaxRequests == 2
MaxIdLen == 1
MaxRecipes == 2
MaxOwned == 2
MaxClock == 2

Procs == {"h1", "h2"}

\* ------------------------------------------------------------- JS values
Chars == {"a", "A", " "}

StringsUpTo(n) == UNION {[1..k -> Chars] : k \in 0..n}

Undef == [t |-> "undefined", s |-> <<>>]
NonString == [t |-> "other", s |-> <<>>]
Str(s) == [t |-> "string", s |-> s]

\* !v of JavaScript: undefined and '' are falsy, every other value modelled
\* here (a non-empty string, a number or object) is truthy.
Falsy(v) == v.t = "undefined" \/ (v.t = "string" /\ v.s = <<>>)

IsString(v) == v.t = "string"

RECURSIVE TrimStart(_)
TrimStart(s) == IF s = <<>> THEN s
                ELSE IF Head(s) = " " THEN TrimStart(Tail(s)) ELSE s

RECURSIVE TrimEnd(_)
TrimEnd(s) == IF s = <<>> THEN s
              ELSE IF s[Len(s)] = " " THEN TrimEnd(SubSeq(s, 1, Len(s) - 1)) ELSE s

\* String.prototype.trim
Trim(s) == TrimEnd(TrimStart(s))

LowerChar(c) == IF c = "A" THEN "a" ELSE IF c = "B" THEN "b" ELSE c

\* LOWER() of PostgreSQL
LOWER(s) == [k \in 1..Len(s) |-> LowerChar(s[k])]

\* ------------------------------------------------------------ request ids
IdChars == {"1", "2", "x"}

IdParams == UNION {[1..k -> IdChars] : k \in 1..MaxIdLen}

\* the digits among IdChars, and the digit of the ids the sequences reach
Digit(c) == IF c = "1" THEN 1 ELSE IF c = "2" THEN 2 ELSE IF c = "3" THEN 3 ELSE 0

\* /^\d+$/.test(id)
IsNumericId(id) == Len(id) > 0 /\ \A k \in 1..Len(id) : id[k] \in {"1", "2", "3"}

RECURSIVE ParseInt(_)
ParseInt(id) == IF id = <<>> THEN 0
                ELSE 10 * ParseInt(SubSeq(id, 1, Len(id) - 1)) + Digit(id[Len(id)])

\* ---------------------------------------------------------- request bodies
IngredientNameInputs == {Undef, NonString} \cup {Str(s) : s \in StringsUpTo(MaxNameLen)}

NotAnArray == [isArray |-> FALSE, items |-> <<>>]
ArrayOf(items) == [isArray |-> TRUE, items |-> items]

NullEntry == [null |-> TRUE, name |-> Undef, quantity |-> Undef, unit |-> Undef]
Entry(n, q, u) == [null |-> FALSE, name |-> n, quantity |-> q, unit |-> u]

RecipeNameInputs == {Undef, NonString, Str(<<" ">>), Str(<<"a">>)}
RecipeInstructionsInputs == {Undef, Str(<<" ">>), Str(<<"a">>)}

\* null, an entry without quantity, one with a whitespace-only name, a valid
\* one without unit, and one whose quantity is a number instead of a string
EntryInputs ==
    { NullEntry,
      Entry(Str(<<"a">>), Undef, Undef),
      Entry(Str(<<" ">>), Str(<<"a">>), Undef),
      Entry(Str(<<"a">>), Str(<<"a">>), Undef),
      Entry(Str(<<"a">>), NonString, Undef) }

IngredientListInputs == {NotAnArray} \cup
    {ArrayOf(l) : l \in UNION {[1..k -> EntryInputs] : k \in 0..MaxIngs}}

NoBody == [name |-> Undef, instructions |-> Undef, ingredients |-> NotAnArray, id |-> <<>>]

\* ------------------------------------------------------------------ state
VARIABLES
    ingredients,                \* table ingredients: committed rows
    ingredients_id_seq,         \* its SERIAL sequence
    recipes,                    \* table recipes: committed rows
    recipes_id_seq,
    recipe_ingredients,         \* table recipe_ingredients: committed rows
    recipe_ingredients_id_seq,
    conn,                       \* per handler: the pooled client and its transaction
    proc,                       \* per handler: the request, its position and response
    nreq,                       \* requests received so far
    engine,                     \* the client's recipe filter and suggestions
    local,                      \* the local-storage client: state, form, localStorage
    api                         \* the API-backed client: state and requests in flight

tables == <<ingredients, recipes, recipe_ingredients>>
seqs == <<ingredients_id_seq, recipes_id_seq, recipe_ingredients_id_seq>>
vars == <<ingredients, ingredients_id_seq, recipes, recipes_id_seq,
          recipe_ingredients, recipe_ingredients_id_seq, conn, proc, nreq, engine,
          local, api>>
client == <<engine, local, api>>

NoConn == [held |-> FALSE, inTx |-> FALSE,
           insRecipes |-> {}, insIngredients |-> {},
           delRecipes |-> {}, delIngredients |-> {}]

Idle == [op |-> "idle", pc |-> "done", body |-> NoBody, status |-> 0,
         err |-> "none", at |-> "none", newId |-> 0, i |-> 0,
         filter |-> "none", rows |-> <<>>, result |-> <<>>]

Request(op, body, pc) == [op |-> op, pc |-> pc, body |-> body, status |-> 0,
                          err |-> "none", at |-> "none", newId |-> 0, i |-> 0,
                          filter |-> "none", rows |-> <<>>, result |-> <<>>]

\* res.status(code).json(...): the handler is finished
Respond(r, code) == [r EXCEPT !.pc = "done", !.status = code]

\* catch (err) { ...; res.status(500) } of the ingredient handlers
Respond500(r, e) == [r EXCEPT !.pc = "done", !.status = 500, !.err = e, !.at = r.pc]

\* the rows of the standard recipe a seeded database holds
StandardRecipe == [id |-> 1, name |-> <<"A">>, instructions |-> <<"a">>, is_custom |-> FALSE]
StandardIngredients ==
    {[id |-> 1, recipe_id |-> 1, name |-> <<"A">>, quantity |-> <<"a">>, unit |-> <<"a">>]}

\* the client before it has anything to show
NoEngine == [ingredients |-> <<>>, recipes |-> <<>>, search |-> <<>>,
             showMakeable |-> FALSE, shown |-> "nothing",
             filteredRecipes |-> <<>>, availableSuggestions |-> <<>>]

\* localStorage.getItem of a key that was never set
NoItem == [null |-> TRUE, text |-> <<>>]

\* the form of RecipeCreator as it is cleared: one row, every field empty
BlankForm == [name |-> <<>>, instructions |-> <<>>,
              ingredients |-> <<[name |-> <<>>, quantity |-> <<>>, unit |-> <<>>]>>]

\* the local-storage client before the page is opened
NoLocal == [ingredients |-> <<>>, customRecipes |-> <<>>, form |-> BlankForm,
            item |-> NoItem, now |-> 0, restored |-> FALSE]

\* the API-backed client before the page is opened: initialState, nothing
\* requested
NoApi == [ingredients |-> <<>>, recipes |-> <<>>, loading |-> TRUE, error |-> "null",
          load |-> "none", ingredientsRes |-> [status |-> 0, rows |-> <<>>],
          calls |-> [p \in Procs |-> "none"], alerts |-> 0]

\* the database after initializeDb, with or without seeded standard recipes
InitDb ==
    /\ ingredients = {}
    /\ ingredients_id_seq = 0
    /\ \/ /\ recipes = {}
          /\ recipes_id_seq = 0
          /\ recipe_ingredients = {}
          /\ recipe_ingredients_id_seq = 0
       \/ /\ recipes = {StandardRecipe}
          /\ recipes_id_seq = 1
          /\ recipe_ingredients = StandardIngredients
          /\ recipe_ingredients_id_seq = 1
    /\ conn = [p \in Procs |-> NoConn]
    /\ proc = [p \in Procs |-> Idle]
    /\ nreq = 0

Init == InitDb /\ engine = NoEngine /\ local = NoLocal /\ api = NoApi

\* a handler slot that can take the next request
CanReceive(p) == proc[p].pc = "done" /\ nreq < MaxRequests

\* ------------------------------------------------- POST /api/ingredients
\* if (!name || typeof name !== 'string' || name.trim() === '')
InvalidIngredientName(name) ==
    Falsy(name) \/ ~IsString(name) \/ Trim(name.s) = <<>>

\* the same check comparing the strings as they are written
SelectIngredientExact(s) == {r \in ingredients : r.name = s}

\* SELECT id FROM ingredients WHERE LOWER(name) = LOWER($1)
SelectIngredientLower(s) == {r \in ingredients : LOWER(r.name) = LOWER(s)}

\* name VARCHAR(255) UNIQUE: the constraint compares the stored strings
UniqueNameViolated(s) == \E r \in ingredients : r.name = s

PostIngredientRequest(p, name) ==
    /\ CanReceive(p)
    /\ nreq' = nreq + 1
    /\ LET r == Request("addIngredient", [NoBody EXCEPT !.name = name], "check")
       IN proc' = [proc EXCEPT ![p] =
                     IF InvalidIngredientName(name) THEN Respond(r, 400) ELSE r]
    /\ UNCHANGED <<tables, seqs, conn>>

\* POST /api/ingredients is received from a caller that is not one of the
\* modelled clients
PostIngredient(p, name) == PostIngredientRequest(p, name) /\ UNCHANGED client

PostIngredientCheck(p) ==
    /\ proc[p].op = "addIngredient" /\ proc[p].pc = "check"
    /\ \/ proc' = [proc EXCEPT ![p] =
                     IF SelectIngredientLower(Trim(proc[p].body.name.s)) # {}
                     THEN Respond(@, 409) ELSE [@ EXCEPT !.pc = "insert"]]
       \/ proc' = [proc EXCEPT ![p] = Respond500(@, "storage")]
    /\ UNCHANGED <<tables, seqs, conn, nreq, client>>

PostIngredientInsert(p) ==
    /\ proc[p].op = "addIngredient" /\ proc[p].pc = "insert"
    /\ LET s == Trim(proc[p].body.name.s)
           id == ingredients_id_seq + 1
       IN \/ /\ ~UniqueNameViolated(s)
             /\ ingredients' = ingredients \cup {[id |-> id, name |-> s]}
             /\ ingredients_id_seq' = id
             /\ proc' = [proc EXCEPT ![p] = Respond([@ EXCEPT !.newId = id], 201)]
          \/ /\ UniqueNameViolated(s)
             /\ ingredients_id_seq' = id
             /\ proc' = [proc EXCEPT ![p] = Respond500(@, "23505")]
             /\ UNCHANGED ingredients
          \/ /\ proc' = [proc EXCEPT ![p] = Respond500(@, "storage")]
             /\ UNCHANGED <<ingredients, ingredients_id_seq>>
    /\ UNCHANGED <<recipes, recipes_id_seq, recipe_ingredients,
                   recipe_ingredients_id_seq, conn, nreq, client>>

\* ------------------------------------------- DELETE /api/ingredients/:id
DeleteIngredientRequest(p, id) ==
    /\ CanReceive(p)
    /\ nreq' = nreq + 1
    /\ LET r == Request("deleteIngredient", [NoBody EXCEPT !.id = id], "delete")
       IN proc' = [proc EXCEPT ![p] =
                     IF ~IsNumericId(id) THEN Respond(r, 400) ELSE r]
    /\ UNCHANGED <<tables, seqs, conn>>

\* DELETE /api/ingredients/:id is received from a caller that is not one of
\* the modelled clients
DeleteIngredient(p, id) == DeleteIngredientRequest(p, id) /\ UNCHANGED client

\* a schema in which recipe_ingredients refers to the ingredient it names
ReferencedByRecipe(hit) ==
    \E r \in hit : \E ri \in recipe_ingredients : LOWER(ri.name) = LOWER(r.name)

\* err.code === '23503': a row of another table refers to the ingredient.  No
\* table declares a reference to ingredients; recipe_ingredients stores the
\* name directly.
ReferencedElsewhere(hit) == FALSE

\* a schema in which deleting an ingredient deletes the recipe rows naming it
CascadeByIngredientName(hit) ==
    {ri \in recipe_ingredients : \E r \in hit : LOWER(ri.name) = LOWER(r.name)}

\* the rows PostgreSQL deletes along with the ingredient rows: the only
\* ON DELETE CASCADE is the one from recipe_ingredients to recipes
CascadeFromIngredients(hit) == {}

\* DELETE FROM ingredients WHERE id = $1 RETURNING *
DeleteIngredientQuery(p) ==
    /\ proc[p].op = "deleteIngredient" /\ proc[p].pc = "delete"
    /\ LET hit == {r \in ingredients : r.id = ParseInt(proc[p].body.id)}
       IN \/ IF ReferencedElsewhere(hit)
             THEN /\ proc' = [proc EXCEPT ![p] =
                                Respond([@ EXCEPT !.err = "23503", !.at = "delete"], 409)]
                  /\ UNCHANGED <<ingredients, recipe_ingredients>>
             ELSE /\ ingredients' = ingredients \ hit
                  /\ recipe_ingredients' =
                        recipe_ingredients \ CascadeFromIngredients(hit)
                  /\ proc' = [proc EXCEPT ![p] =
                        IF hit = {} THEN Respond(@, 404)
                        ELSE Respond([@ EXCEPT !.result = <<CHOOSE r \in hit : TRUE>>], 200)]
          \/ /\ proc' = [proc EXCEPT ![p] = Respond500(@, "storage")]
             /\ UNCHANGED <<ingredients, recipe_ingredients>>
    /\ UNCHANGED <<ingredients_id_seq, recipes, recipes_id_seq,
                   recipe_ingredients_id_seq, conn, nreq, client>>

NextIngredients ==
    \E p \in Procs :
        \/ \E name \in IngredientNameInputs : PostIngredient(p, name)
        \/ PostIngredientCheck(p)
        \/ PostIngredientInsert(p)
        \/ \E id \in IdParams : DeleteIngredient(p, id)
        \/ DeleteIngredientQuery(p)

SpecIngredients == Init /\ [][NextIngredients]_vars

\* ------------------------------------------------ transactions (pg client)
\* a client whose statements never run inside a transaction block
NeverInTransaction(c) == FALSE

\* client.query('BEGIN') was acknowledged: the statements that follow on this
\* client are buffered until COMMIT; on a client outside a transaction block
\* PostgreSQL commits each statement at once.
InTransaction(c) == c.inTx

\* the rows a statement on client c sees (READ COMMITTED, plus its own writes)
VisibleRecipes(c) == (recipes \cup c.insRecipes) \ c.delRecipes
VisibleIngredients(c) == (recipe_ingredients \cup c.insIngredients) \ c.delIngredients

\* COMMIT: the buffered writes become the committed rows
CommittedRecipes(c) == (recipes \cup c.insRecipes) \ c.delRecipes
CommittedIngredients(c) == (recipe_ingredients \cup c.insIngredients) \ c.delIngredients

\* a row another open transaction has deleted is locked until that one ends
LockedByOther(p, rs, is) ==
    \E q \in Procs \ {p} :
        rs \cap conn[q].delRecipes # {} \/ is \cap conn[q].delIngredients # {}

\* a handler that returns without giving the client back to the pool
Leaked == [NoConn EXCEPT !.held = TRUE]

\* finally { client.release() } after the transaction ended
Released == NoConn

\* catch (err): the handler goes on to ROLLBACK
Caught(r, e) == [r EXCEPT !.pc = "rollback", !.err = e, !.at = r.pc]

\* the handler's promise rejects: no response is sent
Thrown(r, e) == [r EXCEPT !.pc = "done", !.status = 0, !.err = e, !.at = r.pc]

\* Express 5 passes the rejection to its default error handler, which
\* answers 500
Forwarded(r, e) == [Thrown(r, e) EXCEPT !.status = 500]

\* what the caller gets when the handler's promise rejects: nothing under
\* Express 4, 500 under Express 5 (the repository does not pin the version)
Rejected(r, e) == {Thrown(r, e), Forwarded(r, e)}

\* await client.query('ROLLBACK') rejects inside the catch block: the handler
\* rejects after the finally block and no response is sent (the 500 of
\* Express 5 is the outcome of the successful ROLLBACK)
RollbackFailed(r) == [r EXCEPT !.pc = "done", !.status = 0]

\* ------------------------------------------------------ POST /api/recipes
\* if (!name || !instructions || !Array.isArray(ingredients))
MissingRecipeFields(b) ==
    Falsy(b.name) \/ Falsy(b.instructions) \/ ~b.ingredients.isArray

\* ingredients.some(ing => !ing.name || !ing.quantity); reading a property of
\* null throws a TypeError
RECURSIVE SomeIngredientInvalid(_)
SomeIngredientInvalid(items) ==
    IF items = <<>> THEN "false"
    ELSE IF Head(items).null THEN "TypeError"
    ELSE IF Falsy(Head(items).name) \/ Falsy(Head(items).quantity) THEN "true"
    ELSE SomeIngredientInvalid(Tail(items))

\* ing.unit?.trim() || ''
TrimmedUnit(u) == IF u.t = "undefined" THEN <<>> ELSE Trim(u.s)

\* ing.name.trim(), ing.quantity.trim(), ing.unit?.trim() on a value that is
\* no string throws a TypeError
TrimThrows(e) == ~IsString(e.name) \/ ~IsString(e.quantity) \/ e.unit.t = "other"

PostRecipeRequest(p, b) ==
    /\ CanReceive(p)
    /\ nreq' = nreq + 1
    /\ LET r == Request("createRecipe", b, "validate")
       IN \E out \in
            IF MissingRecipeFields(b) THEN {Respond(r, 400)}
            ELSE IF SomeIngredientInvalid(b.ingredients.items) = "TypeError"
                 THEN Rejected(r, "TypeError")
            ELSE IF SomeIngredientInvalid(b.ingredients.items) = "true"
                 THEN {Respond(r, 400)}
            ELSE {[r EXCEPT !.pc = "connect"]} :
                proc' = [proc EXCEPT ![p] = out]
    /\ UNCHANGED <<tables, seqs, conn>>

\* POST /api/recipes is received from a caller that is not one of the
\* modelled clients
PostRecipe(p, b) == PostRecipeRequest(p, b) /\ UNCHANGED client

\* const client = await pool.connect(), outside the try block
PostRecipeConnect(p) ==
    /\ proc[p].op = "createRecipe" /\ proc[p].pc = "connect"
    /\ \/ /\ conn' = [conn EXCEPT ![p].held = TRUE]
          /\ proc' = [proc EXCEPT ![p].pc = "begin"]
       \/ /\ \E out \in Rejected(proc[p], "storage") :
                proc' = [proc EXCEPT ![p] = out]
          /\ UNCHANGED conn
    /\ UNCHANGED <<tables, seqs, nreq, client>>

PostRecipeBegin(p) ==
    /\ proc[p].op = "createRecipe" /\ proc[p].pc = "begin"
    /\ \/ /\ conn' = [conn EXCEPT ![p].inTx = TRUE]
          /\ proc' = [proc EXCEPT ![p].pc = "insertRecipe"]
       \/ /\ proc' = [proc EXCEPT ![p] = Caught(@, "storage")]
          /\ UNCHANGED conn
    /\ UNCHANGED <<tables, seqs, nreq, client>>

\* INSERT INTO recipes (name, instructions, is_custom) VALUES ($1, $2, TRUE)
PostRecipeInsertRecipe(p) ==
    /\ proc[p].op = "createRecipe" /\ proc[p].pc = "insertRecipe"
    /\ LET b == proc[p].body
           id == recipes_id_seq + 1
           row == [id |-> id, name |-> Trim(b.name.s),
                   instructions |-> Trim(b.instructions.s), is_custom |-> TRUE]
           next == IF b.ingredients.items = <<>> THEN "commit" ELSE "insertIngredient"
       IN \/ /\ ~IsString(b.name) \/ ~IsString(b.instructions)
             /\ proc' = [proc EXCEPT ![p] = Caught(@, "TypeError")]
             /\ UNCHANGED <<recipes, recipes_id_seq, conn>>
          \/ /\ IsString(b.name) /\ IsString(b.instructions)
             /\ recipes_id_seq' = id
             /\ proc' = [proc EXCEPT ![p] = [@ EXCEPT !.pc = next, !.newId = id, !.i = 1]]
             /\ IF InTransaction(conn[p])
                THEN /\ conn' = [conn EXCEPT ![p].insRecipes = @ \cup {row}]
                     /\ UNCHANGED recipes
                ELSE /\ recipes' = recipes \cup {row}
                     /\ UNCHANGED conn
          \/ /\ proc' = [proc EXCEPT ![p] = Caught(@, "storage")]
             /\ UNCHANGED <<recipes, recipes_id_seq, conn>>
    /\ UNCHANGED <<ingredients, ingredients_id_seq, recipe_ingredients,
                   recipe_ingredients_id_seq, nreq, client>>

\* for (const ing of ingredients) INSERT INTO recipe_ingredients ...
PostRecipeInsertIngredient(p) ==
    /\ proc[p].op = "createRecipe" /\ proc[p].pc = "insertIngredient"
    /\ LET items == proc[p].body.ingredients.items
           e == items[proc[p].i]
           id == recipe_ingredients_id_seq + 1
           row == [id |-> id, recipe_id |-> proc[p].newId, name |-> Trim(e.name.s),
                   quantity |-> Trim(e.quantity.s), unit |-> TrimmedUnit(e.unit)]
           next == IF proc[p].i = Len(items) THEN "commit" ELSE "insertIngredient"
       IN \/ /\ TrimThrows(e)
             /\ proc' = [proc EXCEPT ![p] = Caught(@, "TypeError")]
             /\ UNCHANGED <<recipe_ingredients, recipe_ingredients_id_seq, conn>>
          \/ /\ ~TrimThrows(e)
             /\ recipe_ingredients_id_seq' = id
             /\ proc' = [proc EXCEPT ![p] = [@ EXCEPT !.pc = next, !.i = @ + 1]]
             /\ IF InTransaction(conn[p])
                THEN /\ conn' = [conn EXCEPT ![p].insIngredients = @ \cup {row}]
                     /\ UNCHANGED recipe_ingredients
                ELSE /\ recipe_ingredients' = recipe_ingredients \cup {row}
                     /\ UNCHANGED conn
          \/ /\ proc' = [proc EXCEPT ![p] = Caught(@, "storage")]
             /\ UNCHANGED <<recipe_ingredients, recipe_ingredients_id_seq, conn>>
    /\ UNCHANGED <<ingredients, ingredients_id_seq, recipes, recipes_id_seq, nreq, client>>

\* COMMIT, res.status(201).json(newRecipe), finally client.release()
PostRecipeCommit(p) ==
    /\ proc[p].op = "createRecipe" /\ proc[p].pc = "commit"
    /\ \/ /\ recipes' = CommittedRecipes(conn[p])
          /\ recipe_ingredients' = CommittedIngredients(conn[p])
          /\ conn' = [conn EXCEPT ![p] = Released]
          /\ proc' = [proc EXCEPT ![p] = Respond(@, 201)]
       \/ /\ proc' = [proc EXCEPT ![p] = Caught(@, "storage")]
          /\ UNCHANGED <<recipes, recipe_ingredients, conn>>
    /\ UNCHANGED <<ingredients, seqs, nreq, client>>

\* catch (err) { await client.query('ROLLBACK'); res.status(500) } finally
\* { client.release() }.  A ROLLBACK that fails rejects the handler: no response
\* is sent, and the server discards the transaction of the lost connection.
PostRecipeRollback(p) ==
    /\ proc[p].op = "createRecipe" /\ proc[p].pc = "rollback"
    /\ conn' = [conn EXCEPT ![p] = Released]
    /\ \/ proc' = [proc EXCEPT ![p] = Respond(@, 500)]
       \/ proc' = [proc EXCEPT ![p] = RollbackFailed(@)]
    /\ UNCHANGED <<tables, seqs, nreq, client>>

\* ---------------------------------------------- DELETE /api/recipes/:id
\* a check that takes every recipe for a custom one
AnyRecipeIsCustom(row) == TRUE

\* if (!checkResult.rows[0].is_custom): only custom recipes are deleted
IsCustom(row) == row.is_custom

DeleteRecipeRequest(p, id) ==
    /\ CanReceive(p)
    /\ nreq' = nreq + 1
    /\ LET r == Request("deleteRecipe", [NoBody EXCEPT !.id = id], "connect")
       IN proc' = [proc EXCEPT ![p] =
                     IF ~IsNumericId(id) THEN Respond(r, 400) ELSE r]
    /\ UNCHANGED <<tables, seqs, conn>>

\* DELETE /api/recipes/:id is received from a caller that is not one of the
\* modelled clients
DeleteRecipe(p, id) == DeleteRecipeRequest(p, id) /\ UNCHANGED client

DeleteRecipeConnect(p) ==
    /\ proc[p].op = "deleteRecipe" /\ proc[p].pc = "connect"
    /\ \/ /\ conn' = [conn EXCEPT ![p].held = TRUE]
          /\ proc' = [proc EXCEPT ![p].pc = "begin"]
       \/ /\ \E out \in Rejected(proc[p], "storage") :
                proc' = [proc EXCEPT ![p] = out]
          /\ UNCHANGED conn
    /\ UNCHANGED <<tables, seqs, nreq, client>>

DeleteRecipeBegin(p) ==
    /\ proc[p].op = "deleteRecipe" /\ proc[p].pc = "begin"
    /\ \/ /\ conn' = [conn EXCEPT ![p].inTx = TRUE]
          /\ proc' = [proc EXCEPT ![p].pc = "select"]
       \/ /\ proc' = [proc EXCEPT ![p] = Caught(@, "storage")]
          /\ UNCHANGED conn
    /\ UNCHANGED <<tables, seqs, nreq, client>>

\* SELECT is_custom FROM recipes WHERE id = $1
DeleteRecipeSelect(p) ==
    /\ proc[p].op = "deleteRecipe" /\ proc[p].pc = "select"
    /\ LET hit == {r \in VisibleRecipes(conn[p]) : r.id = ParseInt(proc[p].body.id)}
       IN \/ proc' = [proc EXCEPT ![p].pc =
                        IF hit = {} THEN "rollbackNotFound"
                        ELSE IF \E r \in hit : ~IsCustom(r) THEN "rollbackForbidden"
                        ELSE "deleteIngredients"]
          \/ proc' = [proc EXCEPT ![p] = Caught(@, "storage")]
    /\ UNCHANGED <<tables, seqs, conn, nreq, client>>

\* await client.query('ROLLBACK'); return res.status(404 | 403), then finally
\* client.release(); a ROLLBACK that fails here is caught by the catch block
DeleteRecipeRefuse(p) ==
    /\ proc[p].op = "deleteRecipe"
    /\ proc[p].pc \in {"rollbackNotFound", "rollbackForbidden"}
    /\ \/ /\ conn' = [conn EXCEPT ![p] = Released]
          /\ proc' = [proc EXCEPT ![p] =
                        Respond(@, IF proc[p].pc = "rollbackForbidden" THEN 403 ELSE 404)]
       \/ /\ proc' = [proc EXCEPT ![p] = Caught(@, "storage")]
          /\ UNCHANGED conn
    /\ UNCHANGED <<tables, seqs, nreq, client>>

\* DELETE FROM recipe_ingredients WHERE recipe_id = $1
DeleteRecipeIngredients(p) ==
    /\ proc[p].op = "deleteRecipe" /\ proc[p].pc = "deleteIngredients"
    /\ LET hit == {r \in VisibleIngredients(conn[p]) :
                        r.recipe_id = ParseInt(proc[p].body.id)}
       IN \/ /\ ~LockedByOther(p, {}, hit)
             /\ proc' = [proc EXCEPT ![p].pc = "deleteRecipe"]
             /\ IF InTransaction(conn[p])
                THEN /\ conn' = [conn EXCEPT ![p].delIngredients = @ \cup hit]
                     /\ UNCHANGED recipe_ingredients
                ELSE /\ recipe_ingredients' = recipe_ingredients \ hit
                     /\ UNCHANGED conn
          \/ /\ proc' = [proc EXCEPT ![p] = Caught(@, "storage")]
             /\ UNCHANGED <<recipe_ingredients, conn>>
    /\ UNCHANGED <<ingredients, recipes, seqs, nreq, client>>

\* DELETE FROM recipes WHERE id = $1 RETURNING *; recipe_ingredients.recipe_id
\* is declared ON DELETE CASCADE
DeleteRecipeRow(p) ==
    /\ proc[p].op = "deleteRecipe" /\ proc[p].pc = "deleteRecipe"
    /\ LET id == ParseInt(proc[p].body.id)
           hit == {r \in VisibleRecipes(conn[p]) : r.id = id}
           cascade == {r \in VisibleIngredients(conn[p]) : r.recipe_id = id}
       IN \/ /\ ~LockedByOther(p, hit, cascade)
             /\ proc' = [proc EXCEPT ![p] =
                           IF hit = {} THEN [@ EXCEPT !.pc = "rollbackNotFound"]
                           ELSE [@ EXCEPT !.pc = "commit", !.newId = id]]
             /\ IF InTransaction(conn[p])
                THEN /\ conn' = [conn EXCEPT ![p].delRecipes = @ \cup hit,
                                             ![p].delIngredients = @ \cup cascade]
                     /\ UNCHANGED <<recipes, recipe_ingredients>>
                ELSE /\ recipes' = recipes \ hit
                     /\ recipe_ingredients' = recipe_ingredients \ cascade
                     /\ UNCHANGED conn
          \/ /\ proc' = [proc EXCEPT ![p] = Caught(@, "storage")]
             /\ UNCHANGED <<recipes, recipe_ingredients, conn>>
    /\ UNCHANGED <<ingredients, seqs, nreq, client>>

\* COMMIT, res.status(200).json(...), finally client.release()
DeleteRecipeCommit(p) ==
    /\ proc[p].op = "deleteRecipe" /\ proc[p].pc = "commit"
    /\ \/ /\ recipes' = CommittedRecipes(conn[p])
          /\ recipe_ingredients' = CommittedIngredients(conn[p])
          /\ conn' = [conn EXCEPT ![p] = Released]
          /\ proc' = [proc EXCEPT ![p] = Respond(@, 200)]
       \/ /\ proc' = [proc EXCEPT ![p] = Caught(@, "storage")]
          /\ UNCHANGED <<recipes, recipe_ingredients, conn>>
    /\ UNCHANGED <<ingredients, seqs, nreq, client>>

\* catch (err) { await client.query('ROLLBACK'); res.status(500) } finally
\* { client.release() }
DeleteRecipeRollback(p) ==
    /\ proc[p].op = "deleteRecipe" /\ proc[p].pc = "rollback"
    /\ conn' = [conn EXCEPT ![p] = Released]
    /\ \/ proc' = [proc EXCEPT ![p] = Respond(@, 500)]
       \/ proc' = [proc EXCEPT ![p] = RollbackFailed(@)]
    /\ UNCHANGED <<tables, seqs, nreq, client>>

\* --------------------------------------------------------- GET /api/recipes
\* the byte of a character: the collation of the postgres:15-alpine image
\* compares strings byte by byte
CharCode(c) == IF c = " " THEN 32 ELSE IF c = "A" THEN 65 ELSE IF c = "B" THEN 66
               ELSE IF c = "a" THEN 97 ELSE 98

RECURSIVE NameLess(_, _)
NameLess(s, t) ==
    IF t = <<>> THEN FALSE
    ELSE IF s = <<>> THEN TRUE
    ELSE IF Head(s) # Head(t) THEN CharCode(Head(s)) < CharCode(Head(t))
    ELSE NameLess(Tail(s), Tail(t))

\* the orders in which a SELECT without ORDER BY can return the rows: the
\* order is unspecified
AnyOrder(rows) ==
    {f \in [1..Cardinality(rows) -> rows] :
        \A i, j \in 1..Cardinality(rows) : i # j => f[i] # f[j]}

\* ... ORDER BY name ASC: rows with equal names come in any order
OrderedByName(rows) ==
    {f \in AnyOrder(rows) :
        \A i, j \in 1..Len(f) : i < j => ~NameLess(f[j].name, f[i].name)}

\* the filters a caller can ask for; the handler reads nothing of the request
ListFilters == {"all", "custom-only"}

\* SELECT * FROM recipes WHERE is_custom = TRUE
SelectCustomRecipes == {r \in recipes : r.is_custom}

\* recipe.ingredients = ingredientsResult.rows (name, quantity, unit)
WithIngredients(recipe, rows) ==
    [id |-> recipe.id, name |-> recipe.name, instructions |-> recipe.instructions,
     is_custom |-> recipe.is_custom,
     ingredients |-> [k \in 1..Len(rows) |->
        [name |-> rows[k].name, quantity |-> rows[k].quantity, unit |-> rows[k].unit]]]

ListRecipesRequest(p, f) ==
    /\ CanReceive(p)
    /\ nreq' = nreq + 1
    /\ proc' = [proc EXCEPT ![p] =
                  [Request("listRecipes", NoBody, "selectRecipes") EXCEPT !.filter = f]]
    /\ UNCHANGED <<tables, seqs, conn>>

\* GET /api/recipes is received from a caller that is not one of the
\* modelled clients
ListRecipes(p, f) == ListRecipesRequest(p, f) /\ UNCHANGED client

\* pool.query('SELECT * FROM recipes WHERE is_custom = TRUE ORDER BY name ASC');
\* with no recipe the loop is skipped and res.json(recipes) answers at once
ListRecipesSelect(p) ==
    /\ proc[p].op = "listRecipes" /\ proc[p].pc = "selectRecipes"
    /\ \/ \E rows \in OrderedByName(SelectCustomRecipes) :
             proc' = [proc EXCEPT ![p] =
                        IF rows = <<>> THEN Respond(@, 200)
                        ELSE [@ EXCEPT !.rows = rows, !.i = 1, !.pc = "selectIngredients"]]
       \/ proc' = [proc EXCEPT ![p] = Respond500(@, "storage")]
    /\ UNCHANGED <<tables, seqs, conn, nreq, client>>

\* for (const recipe of recipes) pool.query('SELECT name, quantity, unit FROM
\* recipe_ingredients WHERE recipe_id = $1'): one statement per recipe, each
\* reading the rows committed when it runs; res.json(recipes) after the last
ListRecipesIngredients(p) ==
    /\ proc[p].op = "listRecipes" /\ proc[p].pc = "selectIngredients"
    /\ LET recipe == proc[p].rows[proc[p].i]
           last == proc[p].i = Len(proc[p].rows)
       IN \/ \E rows \in AnyOrder({ri \in recipe_ingredients : ri.recipe_id = recipe.id}) :
                LET r == [proc[p] EXCEPT
                            !.result = Append(@, WithIngredients(recipe, rows)),
                            !.i = @ + 1]
                IN proc' = [proc EXCEPT ![p] = IF last THEN Respond(r, 200) ELSE r]
          \/ proc' = [proc EXCEPT ![p] = Respond500([@ EXCEPT !.result = <<>>], "storage")]
    /\ UNCHANGED <<tables, seqs, conn, nreq, client>>

\* ------------------------------------------------------------ input sets
RecipeBodyInputs ==
    {[name |-> n, instructions |-> t, ingredients |-> l, id |-> <<>>] :
        n \in RecipeNameInputs, t \in RecipeInstructionsInputs,
        l \in IngredientListInputs}

\* the bodies the client's form sends: every field a trimmed, non-empty string
WellFormedEntry == Entry(Str(<<"a">>), Str(<<"a">>), Str(<<"a">>))

WellFormedBodyInputs ==
    {[name |-> Str(<<"a">>), instructions |-> Str(<<"a">>),
      ingredients |-> ArrayOf([k \in 1..n |-> WellFormedEntry]), id |-> <<>>] :
        n \in 1..MaxIngs}

\* handler h1 receives every body of the input sets, handler h2 the traffic
\* of a well-behaved client
RecipeBodiesFor(p) == IF p = "h1" THEN RecipeBodyInputs ELSE WellFormedBodyInputs

NextRecipes ==
    \E p \in Procs :
        \/ \E b \in RecipeBodiesFor(p) : PostRecipe(p, b)
        \/ PostRecipeConnect(p)
        \/ PostRecipeBegin(p)
        \/ PostRecipeInsertRecipe(p)
        \/ PostRecipeInsertIngredient(p)
        \/ PostRecipeCommit(p)
        \/ PostRecipeRollback(p)
        \/ \E id \in IdParams : DeleteRecipe(p, id)
        \/ DeleteRecipeConnect(p)
        \/ DeleteRecipeBegin(p)
        \/ DeleteRecipeSelect(p)
        \/ DeleteRecipeRefuse(p)
        \/ DeleteRecipeIngredients(p)
        \/ DeleteRecipeRow(p)
        \/ DeleteRecipeCommit(p)
        \/ DeleteRecipeRollback(p)

SpecRecipes == Init /\ [][NextRecipes]_vars

\* bodies of the client's form whose ingredients can be told apart
ListedEntryInputs == {WellFormedEntry, Entry(Str(<<"A">>), Str(<<"a">>), Undef)}

ListedBodyInputs ==
    {[name |-> Str(<<"a">>), instructions |-> Str(<<"a">>),
      ingredients |-> ArrayOf(l), id |-> <<>>] :
        l \in UNION {[1..n -> ListedEntryInputs] : n \in 1..MaxIngs}}

\* recipes are listed while they are created and deleted
NextList ==
    \E p \in Procs :
        \/ \E f \in ListFilters : ListRecipes(p, f)
        \/ ListRecipesSelect(p)
        \/ ListRecipesIngredients(p)
        \/ \E b \in ListedBodyInputs : PostRecipe(p, b)
        \/ PostRecipeConnect(p)
        \/ PostRecipeBegin(p)
        \/ PostRecipeInsertRecipe(p)
        \/ PostRecipeInsertIngredient(p)
        \/ PostRecipeCommit(p)
        \/ PostRecipeRollback(p)
        \/ \E id \in IdParams : DeleteRecipe(p, id)
        \/ DeleteRecipeConnect(p)
        \/ DeleteRecipeBegin(p)
        \/ DeleteRecipeSelect(p)
        \/ DeleteRecipeRefuse(p)
        \/ DeleteRecipeIngredients(p)
        \/ DeleteRecipeRow(p)
        \/ DeleteRecipeCommit(p)
        \/ DeleteRecipeRollback(p)

SpecList == Init /\ [][NextList]_vars

\* a database that already holds a custom recipe with two ingredient rows,
\* next to the standard one
StoredRecipe == [id |-> 2, name |-> <<"a">>, instructions |-> <<"a">>, is_custom |-> TRUE]
StoredIngredients ==
    {[id |-> 2, recipe_id |-> 2, name |-> <<"a">>, quantity |-> <<"a">>, unit |-> <<"a">>],
     [id |-> 3, recipe_id |-> 2, name |-> <<"A">>, quantity |-> <<"a">>, unit |-> <<>>]}

InitStored ==
    /\ ingredients = {}
    /\ ingredients_id_seq = 0
    /\ recipes = {StandardRecipe, StoredRecipe}
    /\ recipes_id_seq = 2
    /\ recipe_ingredients = StandardIngredients \cup StoredIngredients
    /\ recipe_ingredients_id_seq = 3
    /\ conn = [p \in Procs |-> NoConn]
    /\ proc = [p \in Procs |-> Idle]
    /\ nreq = 0
    /\ engine = NoEngine /\ local = NoLocal /\ api = NoApi

\* recipes are listed while stored recipes are deleted and new ones created
SpecStored == InitStored /\ [][NextList]_vars

\* ------------------------------------------- the client: recipe filter
UpperChar(c) == IF c = "a" THEN "A" ELSE IF c = "b" THEN "B" ELSE c

\* String.prototype.toLowerCase, toUpperCase
toLowerCase(s) == [k \in 1..Len(s) |-> LowerChar(s[k])]
toUpperCase(s) == [k \in 1..Len(s) |-> UpperChar(s[k])]

\* String.prototype.includes
StringIncludes(s, t) ==
    \E k \in 0..(Len(s) - Len(t)) : SubSeq(s, k + 1, k + Len(t)) = t

\* Array.prototype.includes
ArrayIncludes(arr, x) == \E k \in 1..Len(arr) : arr[k] = x

\* a test that compares the names as they are written
canMakeRecipeExact(recipe, owned) ==
    \A k \in 1..Len(recipe.ingredients) :
        ArrayIncludes([j \in 1..Len(owned) |-> owned[j].name], recipe.ingredients[k].name)

\* a test that asks whether the recipe uses every ingredient of the inventory
canMakeRecipeSwapped(recipe, owned) ==
    LET needed == [k \in 1..Len(recipe.ingredients) |->
                      toLowerCase(recipe.ingredients[k].name)]
    IN \A j \in 1..Len(owned) : ArrayIncludes(needed, toLowerCase(owned[j].name))

\* const ingredientNames = ingredients.map((i) => i.name.toLowerCase());
\* recipe.ingredients.every((ri) => ingredientNames.includes(ri.name.toLowerCase()))
canMakeRecipe(recipe, owned) ==
    LET ingredientNames == [j \in 1..Len(owned) |-> toLowerCase(owned[j].name)]
    IN \A k \in 1..Len(recipe.ingredients) :
          ArrayIncludes(ingredientNames, toLowerCase(recipe.ingredients[k].name))

\* a search that compares the names as they are written
MatchesSearchExact(recipe, search) == StringIncludes(recipe.name, search)

\* r.name.toLowerCase().includes(search.toLowerCase())
MatchesSearch(recipe, search) ==
    StringIncludes(toLowerCase(recipe.name), toLowerCase(search))

\* useRecipeFilter: the search filter if search is not empty, then the
\* makeable filter if showMakeable is set
useRecipeFilter(all, owned, search, showMakeable) ==
    LET bySearch == IF search # <<>>
                    THEN SelectSeq(all, LAMBDA r : MatchesSearch(r, search))
                    ELSE all
    IN IF showMakeable
       THEN SelectSeq(bySearch, LAMBDA r : canMakeRecipe(r, owned))
       ELSE bySearch

\* ---------------------------------------- the client: quick-add suggestions
\* String.prototype.split(" ")
RECURSIVE SplitOnSpace(_)
SplitOnSpace(s) ==
    IF \A k \in 1..Len(s) : s[k] # " " THEN <<s>>
    ELSE LET k == CHOOSE i \in 1..Len(s) : s[i] = " " /\ \A j \in 1..(i - 1) : s[j] # " "
         IN <<SubSeq(s, 1, k - 1)>> \o SplitOnSpace(SubSeq(s, k + 1, Len(s)))

\* word.charAt(0).toUpperCase() + word.slice(1).toLowerCase()
Capitalize(word) ==
    IF word = <<>> THEN <<>>
    ELSE toUpperCase(<<Head(word)>>) \o toLowerCase(Tail(word))

\* Array.prototype.join(" ")
RECURSIVE JoinWithSpace(_)
JoinWithSpace(words) ==
    IF words = <<>> THEN <<>>
    ELSE IF Len(words) = 1 THEN words[1]
    ELSE words[1] \o <<" ">> \o JoinWithSpace(Tail(words))

\* ing.name.trim().split(" ").map(...).join(" ")
normalizedName(name) ==
    LET words == SplitOnSpace(Trim(name))
    IN JoinWithSpace([k \in 1..Len(words) |-> Capitalize(words[k])])

\* the ingredient names of all recipes, in the order of the two forEach loops
RECURSIVE IngredientNamesOf(_)
IngredientNamesOf(all) ==
    IF all = <<>> THEN <<>>
    ELSE [k \in 1..Len(Head(all).ingredients) |-> Head(all).ingredients[k].name]
            \o IngredientNamesOf(Tail(all))

\* new Set<string>() filled by add(): insertion order, no value twice; a
\* normalized name that is empty is not added
RECURSIVE AddNormalized(_, _)
AddNormalized(names, set) ==
    IF names = <<>> THEN set
    ELSE LET n == normalizedName(Head(names))
         IN AddNormalized(Tail(names),
                IF n = <<>> \/ ArrayIncludes(set, n) THEN set ELSE Append(set, n))

\* the primary collation weight of a character: localeCompare tells letters
\* apart before it looks at their case
LocaleWeight(c) == IF c = " " THEN 0 ELSE IF LowerChar(c) = "a" THEN 1 ELSE 2

\* a.localeCompare(b) < 0, for strings that differ in more than case
RECURSIVE LocaleLess(_, _)
LocaleLess(s, t) ==
    IF t = <<>> THEN FALSE
    ELSE IF s = <<>> THEN TRUE
    ELSE IF LocaleWeight(Head(s)) # LocaleWeight(Head(t))
         THEN LocaleWeight(Head(s)) < LocaleWeight(Head(t))
    ELSE LocaleLess(Tail(s), Tail(t))

\* suggestions.sort((a, b) => a.localeCompare(b))
RECURSIVE SortByLocale(_)
SortByLocale(list) ==
    IF list = <<>> THEN <<>>
    ELSE LET rest == SortByLocale(Tail(list))
             before == SelectSeq(rest, LAMBDA x : LocaleLess(x, Head(list)))
             after == SelectSeq(rest, LAMBDA x : ~LocaleLess(x, Head(list)))
         IN before \o <<Head(list)>> \o after

\* availableSuggestions of IngredientManager
availableSuggestions(all, owned) ==
    LET allRecipeIngredientNames == AddNormalized(IngredientNamesOf(all), <<>>)
        currentIngredientNames == {toLowerCase(owned[j].name) : j \in 1..Len(owned)}
        suggestions == SelectSeq(allRecipeIngredientNames,
                           LAMBDA x : toLowerCase(x) \notin currentIngredientNames)
    IN SortByLocale(suggestions)

\* ------------------------------------------------ the client: what it holds
RecipeIngredient(n, q, u) == [name |-> n, quantity |-> q, unit |-> u]

\* ingredients of the recipes the client holds: one name with two quantities,
\* a name in capitals, a name of two words, and the empty name that the
\* server stores for a whitespace-only name
HeldIngredientInputs ==
    { RecipeIngredient(<<"a">>, <<"1">>, <<"a">>),
      RecipeIngredient(<<"a">>, <<"2">>, <<>>),
      RecipeIngredient(<<"B">>, <<"1">>, <<"a">>),
      RecipeIngredient(<<"a", " ", "b">>, <<"1">>, <<"a">>),
      RecipeIngredient(<<>>, <<"1">>, <<"a">>) }

HeldRecipeNames == {<<"a">>, <<"a", "B">>}

HeldRecipeInputs ==
    {[name |-> n, ingredients |-> l, instructions |-> <<"a">>, isCustom |-> TRUE] :
        n \in HeldRecipeNames,
        l \in UNION {[1..k -> HeldIngredientInputs] : k \in 0..MaxIngs}}

\* state.recipes (STANDARD_RECIPES and state.customRecipes in the
\* local-storage client); the id of a recipe is its place
CollectionInputs ==
    {[k \in 1..Len(l) |->
        [id |-> k, name |-> l[k].name, ingredients |-> l[k].ingredients,
         instructions |-> l[k].instructions, isCustom |-> l[k].isCustom]] :
        l \in UNION {[1..n -> HeldRecipeInputs] : n \in 0..MaxRecipes}}

OwnedNameInputs == {<<"A">>, <<"b">>}

\* state.ingredients
InventoryInputs ==
    {[k \in 1..Len(l) |-> [id |-> k, name |-> l[k]]] :
        l \in UNION {[1..n -> OwnedNameInputs] : n \in 0..MaxOwned}}

SearchInputs == {<<>>, <<"A", "b">>}

InitEngine ==
    /\ ingredients = {}
    /\ ingredients_id_seq = 0
    /\ recipes = {}
    /\ recipes_id_seq = 0
    /\ recipe_ingredients = {}
    /\ recipe_ingredients_id_seq = 0
    /\ conn = [p \in Procs |-> NoConn]
    /\ proc = [p \in Procs |-> Idle]
    /\ nreq = 0
    /\ \E owned \in InventoryInputs, all \in CollectionInputs :
          engine = [NoEngine EXCEPT !.ingredients = owned, !.recipes = all]
    /\ local = NoLocal /\ api = NoApi

\* RecipeManager renders with a search term and the makeable switch: useMemo
\* recomputes filteredRecipes
ShowRecipes(search, showMakeable) ==
    /\ engine' = [engine EXCEPT
            !.search = search, !.showMakeable = showMakeable, !.shown = "recipes",
            !.filteredRecipes =
                useRecipeFilter(engine.recipes, engine.ingredients, search, showMakeable)]
    /\ UNCHANGED <<tables, seqs, conn, proc, nreq, local, api>>

\* IngredientManager renders: useMemo recomputes availableSuggestions
ShowSuggestions ==
    /\ engine' = [engine EXCEPT
            !.shown = "suggestions",
            !.availableSuggestions =
                availableSuggestions(engine.recipes, engine.ingredients)]
    /\ UNCHANGED <<tables, seqs, conn, proc, nreq, local, api>>

NextEngine ==
    \/ \E search \in SearchInputs, showMakeable \in BOOLEAN :
          ShowRecipes(search, showMakeable)
    \/ ShowSuggestions

SpecEngine == InitEngine /\ [][NextEngine]_vars

\* quickAddIngredient(name) on the k-th suggestion: addIngredient trims the
\* name, adds it unless the inventory holds it ignoring case, and the render
\* that follows recomputes availableSuggestions (the engine does not read the
\* id of the new ingredient)
QuickAdd(k) ==
    /\ engine.shown = "suggestions"
    /\ k \in 1..Len(engine.availableSuggestions)
    /\ LET ingredientName == Trim(engine.availableSuggestions[k])
           exists == \E j \in 1..Len(engine.ingredients) :
                        toLowerCase(engine.ingredients[j].name) = toLowerCase(ingredientName)
           owned == IF ingredientName # <<>> /\ ~exists
                    THEN Append(engine.ingredients,
                            [id |-> Len(engine.ingredients) + 1, name |-> ingredientName])
                    ELSE engine.ingredients
       IN engine' = [engine EXCEPT
                        !.ingredients = owned,
                        !.availableSuggestions = availableSuggestions(engine.recipes, owned)]
    /\ UNCHANGED <<tables, seqs, conn, proc, nreq, local, api>>

\* the suggestions are shown and added one by one
NextQuickAdd ==
    \/ ShowSuggestions
    \/ \E k \in 1..(MaxRecipes * MaxIngs) : QuickAdd(k)

SpecQuickAdd == InitEngine /\ [][NextQuickAdd]_vars

\* --------------------------------------------- the local-storage client
server == <<tables, seqs, conn, proc, nreq>>

\* Date.now().toString() for the clock values of the model
DigitChars == <<"1", "2", "3", "4", "5", "6", "7", "8", "9">>
DateNowToString(now) == <<DigitChars[now]>>

\* the State of the reducer: what `local` holds of it
LocalState(l) == [ingredients |-> l.ingredients, customRecipes |-> l.customRecipes]

initialState == [ingredients |-> <<>>, customRecipes |-> <<>>]

\* reducer of the local-storage client
reducer(state, action) ==
    CASE action.type = "ADD_INGREDIENT" ->
            [state EXCEPT !.ingredients = Append(@, action.payload)]
      [] action.type = "REMOVE_INGREDIENT" ->
            [state EXCEPT !.ingredients = SelectSeq(@, LAMBDA i : i.id # action.payload)]
      [] action.type = "ADD_RECIPE" ->
            [state EXCEPT !.customRecipes = Append(@, action.payload)]
      [] action.type = "REMOVE_RECIPE" ->
            [state EXCEPT !.customRecipes = SelectSeq(@, LAMBDA r : r.id # action.payload)]
      [] OTHER -> state

\* JSON.stringify: the text lists the values of the properties of each object
\* in the order in which they were written
StringifyIngredient(i) == <<i.id, i.name>>
StringifyRecipeIngredient(ri) == <<ri.name, ri.quantity, ri.unit>>
StringifyRecipe(r) ==
    <<r.id, r.name,
      [k \in 1..Len(r.ingredients) |-> StringifyRecipeIngredient(r.ingredients[k])],
      r.instructions, r.isCustom>>
JSONStringify(state) ==
    << [k \in 1..Len(state.ingredients) |-> StringifyIngredient(state.ingredients[k])],
       [k \in 1..Len(state.customRecipes) |-> StringifyRecipe(state.customRecipes[k])] >>

\* JSON.parse of such a text
ParseIngredient(t) == [id |-> t[1], name |-> t[2]]
ParseRecipeIngredient(t) == [name |-> t[1], quantity |-> t[2], unit |-> t[3]]
ParseRecipe(t) ==
    [id |-> t[1], name |-> t[2],
     ingredients |-> [k \in 1..Len(t[3]) |-> ParseRecipeIngredient(t[3][k])],
     instructions |-> t[4], isCustom |-> t[5]]
JSONParse(text) ==
    [ingredients |-> [k \in 1..Len(text[1]) |-> ParseIngredient(text[1][k])],
     customRecipes |-> [k \in 1..Len(text[2]) |-> ParseRecipe(text[2][k])]]

\* a save that writes the ingredients and drops the custom recipes
PersistedWithoutRecipes(state) ==
    [null |-> FALSE, text |-> JSONStringify([state EXCEPT !.customRecipes = <<>>])]

\* useEffect(() => setStoredState(state)) and the effect of useLocalStorage:
\* localStorage.setItem('bartenderState', JSON.stringify(value))
Persisted(state) == [null |-> FALSE, text |-> JSONStringify(state)]

\* dispatch(action): the reducer runs, the component renders and its effects
\* save the new state
Dispatch(l, action) ==
    LET state == reducer(LocalState(l), action)
    IN [l EXCEPT !.ingredients = state.ingredients,
                 !.customRecipes = state.customRecipes,
                 !.item = Persisted(state)]

\* const stored = localStorage.getItem(key);
\* return stored ? JSON.parse(stored) : initialValue
storedState(item) == IF item.null THEN initialState ELSE JSONParse(item.text)

\* what the user types into the ingredient field
TypedNameInputs == {<<"a">>, <<" ", "A">>, <<"b">>, <<" ">>}

\* addIngredient of IngredientManager
addIngredient(typed) ==
    LET ingredientName == Trim(typed)
        exists == \E k \in 1..Len(local.ingredients) :
                     toLowerCase(local.ingredients[k].name) = toLowerCase(ingredientName)
    IN /\ Len(local.ingredients) < MaxOwned
       /\ local.now > 0
       /\ local' = IF ingredientName # <<>> /\ ~exists
                    THEN Dispatch(local,
                            [type |-> "ADD_INGREDIENT",
                             payload |-> [id |-> DateNowToString(local.now),
                                          name |-> ingredientName]])
                    ELSE local
       /\ UNCHANGED <<server, engine, api>>

\* the remove button of a listed ingredient
removeIngredient(k) ==
    /\ k \in 1..Len(local.ingredients)
    /\ local' = Dispatch(local, [type |-> "REMOVE_INGREDIENT",
                                  payload |-> local.ingredients[k].id])
    /\ UNCHANGED <<server, engine, api>>

\* rows of the recipe form: untouched, whitespace only, filled in with
\* spaces around the name, and without quantity
FormRowInputs ==
    { RecipeIngredient(<<>>, <<>>, <<>>),
      RecipeIngredient(<<" ">>, <<" ">>, <<>>),
      RecipeIngredient(<<" ", "a">>, <<"1">>, <<" ">>),
      RecipeIngredient(<<"a">>, <<>>, <<>>) }

FormInputs ==
    {[name |-> <<"a">>, instructions |-> t, ingredients |-> l] :
        t \in {<<>>, <<"a">>},
        l \in UNION {[1..n -> FormRowInputs] : n \in 1..MaxIngs}}

\* setName, setInstructions, updateIngredient, addIngredientField: the user
\* fills in the cleared form
EditForm(form) ==
    /\ local.now > 0
    /\ local' = [local EXCEPT !.form = form]
    /\ UNCHANGED <<server, engine, api>>

\* !v of JavaScript for a string
Truthy(str) == str # <<>>

\* saveRecipe of RecipeCreator
saveRecipe ==
    LET f == local.form
        complete == /\ Truthy(f.name) /\ Truthy(f.instructions)
                    /\ \A k \in 1..Len(f.ingredients) :
                          Truthy(f.ingredients[k].name) /\ Truthy(f.ingredients[k].quantity)
        validIngredients ==
            SelectSeq(f.ingredients,
                LAMBDA i : Truthy(i.name) \/ Truthy(i.quantity) \/ Truthy(i.unit))
        onlyEmptyRows ==
            /\ Len(validIngredients) = 0
            /\ Len(f.ingredients) > 0
            /\ ~(/\ Len(f.ingredients) = 1
                  /\ ~Truthy(f.ingredients[1].name)
                  /\ ~Truthy(f.ingredients[1].quantity)
                  /\ ~Truthy(f.ingredients[1].unit))
        trimmed == [k \in 1..Len(validIngredients) |->
                      RecipeIngredient(Trim(validIngredients[k].name),
                                       Trim(validIngredients[k].quantity),
                                       Trim(validIngredients[k].unit))]
        payload == [id |-> DateNowToString(local.now),
                    name |-> f.name,
                    ingredients |-> SelectSeq(trimmed,
                                       LAMBDA ing : Truthy(ing.name) /\ Truthy(ing.quantity)),
                    instructions |-> f.instructions,
                    isCustom |-> TRUE]
    IN /\ local.now > 0
       /\ Len(local.customRecipes) < MaxRecipes
       /\ local' = IF complete /\ ~onlyEmptyRows
                    THEN [Dispatch(local, [type |-> "ADD_RECIPE", payload |-> payload])
                            EXCEPT !.form = BlankForm]
                    ELSE local
       /\ UNCHANGED <<server, engine, api>>

\* the delete button of a listed custom recipe
removeRecipe(k) ==
    /\ k \in 1..Len(local.customRecipes)
    /\ local' = Dispatch(local, [type |-> "REMOVE_RECIPE",
                                  payload |-> local.customRecipes[k].id])
    /\ UNCHANGED <<server, engine, api>>

\* Date.now() has advanced by a millisecond
Tick ==
    /\ local.now > 0 /\ local.now < MaxClock
    /\ local' = [local EXCEPT !.now = @ + 1]
    /\ UNCHANGED <<server, engine, api>>

\* the page is loaded again: useReducer(reducer, storedState) starts from the
\* saved item, the form is new, and the effects save the state
Reload ==
    /\ local.now > 0
    /\ LET state == storedState(local.item)
       IN local' = [local EXCEPT !.ingredients = state.ingredients,
                                 !.customRecipes = state.customRecipes,
                                 !.form = BlankForm,
                                 !.item = Persisted(state),
                                 !.restored = ~local.item.null]
    /\ UNCHANGED <<server, engine, api>>

\* the page opened for the first time: no item is stored, the state is
\* initialState and the first effect saves it
InitLocal ==
    /\ ingredients = {}
    /\ ingredients_id_seq = 0
    /\ recipes = {}
    /\ recipes_id_seq = 0
    /\ recipe_ingredients = {}
    /\ recipe_ingredients_id_seq = 0
    /\ conn = [p \in Procs |-> NoConn]
    /\ proc = [p \in Procs |-> Idle]
    /\ nreq = 0
    /\ engine = NoEngine /\ api = NoApi
    /\ local = [NoLocal EXCEPT !.item = Persisted(storedState(NoItem)), !.now = 1]

NextLocal ==
    \/ \E typed \in TypedNameInputs : addIngredient(typed)
    \/ \E k \in 1..MaxOwned : removeIngredient(k)
    \/ \E form \in FormInputs : EditForm(form)
    \/ saveRecipe
    \/ \E k \in 1..MaxRecipes : removeRecipe(k)
    \/ Tick
    \/ Reload

SpecLocal == InitLocal /\ [][NextLocal]_vars

\* ------------------------------------------------ the API-backed client
\* reducer of the API-backed client; ...state keeps every other field
apiReducer(state, action) ==
    CASE action.type = "SET_LOADING" -> [state EXCEPT !.loading = action.payload]
      [] action.type = "SET_ERROR" ->
            [state EXCEPT !.error = action.payload, !.loading = FALSE]
      [] action.type = "SET_INGREDIENTS" ->
            [state EXCEPT !.ingredients = action.payload, !.loading = FALSE]
      [] action.type = "ADD_INGREDIENT" ->
            IF \E k \in 1..Len(state.ingredients) :
                  state.ingredients[k].id = action.payload.id
            THEN state
            ELSE [state EXCEPT !.ingredients = Append(@, action.payload)]
      [] action.type = "REMOVE_INGREDIENT" ->
            [state EXCEPT !.ingredients = SelectSeq(@, LAMBDA i : i.id # action.payload)]
      [] action.type = "SET_RECIPES" ->
            [state EXCEPT !.recipes = action.payload, !.loading = FALSE]
      [] action.type = "ADD_RECIPE" ->
            IF \E k \in 1..Len(state.recipes) : state.recipes[k].id = action.payload.id
            THEN state
            ELSE [state EXCEPT !.recipes = Append(@, action.payload)]
      [] action.type = "REMOVE_RECIPE" ->
            [state EXCEPT !.recipes = SelectSeq(@, LAMBDA r : r.id # action.payload)]
      [] OTHER -> state

\* {!state.loading && !state.error && <Tabs>}: the ingredient and recipe tabs
\* and their buttons are on the page
TabsShown(state) == ~state.loading /\ state.error = "null"

\* a response that was sent with any status counts as success
AnyResponse(status) == TRUE

\* response.ok: the status is in the range 200-299
ResponseOk(status) == status \in 200..299

\* `${API_BASE_URL}/ingredients/${id}`: the id as the digits of the URL
IdToString(id) == <<DigitChars[id]>>

\* useEffect(() => { fetchData() }, []): the two dispatches, then both requests
\* of Promise.all are sent; GET /api/recipes is received by handler p
fetchData(p) ==
    /\ api.load = "none"
    /\ ListRecipesRequest(p, "all")
    /\ LET state == apiReducer(apiReducer(api, [type |-> "SET_LOADING", payload |-> TRUE]),
                               [type |-> "SET_ERROR", payload |-> "null"])
       IN api' = [state EXCEPT !.load = "awaiting", !.calls[p] = "recipes"]
    /\ UNCHANGED <<engine, local>>

\* GET /api/ingredients: SELECT * FROM ingredients ORDER BY name ASC and
\* res.json(result.rows), or the catch that answers 500
ListIngredients ==
    /\ api.load = "awaiting" /\ api.ingredientsRes.status = 0
    /\ \/ \E rows \in OrderedByName(ingredients) :
             api' = [api EXCEPT !.ingredientsRes = [status |-> 200, rows |-> rows]]
       \/ api' = [api EXCEPT !.ingredientsRes = [status |-> 500, rows |-> <<>>]]
    /\ UNCHANGED <<server, engine, local>>

\* fetchData after await Promise.all: both responses are processed and the
\* data is stored, or the catch records the error of a response that is not
\* ok or of a fetch that was rejected
fetchDataSettled(p) ==
    /\ api.load = "awaiting" /\ api.calls[p] = "recipes"
    /\ LET answered == api.ingredientsRes.status # 0 /\ proc[p].pc = "done"
           ok == ResponseOk(api.ingredientsRes.status) /\ ResponseOk(proc[p].status)
           stored == apiReducer(
                        apiReducer(api, [type |-> "SET_INGREDIENTS",
                                         payload |-> api.ingredientsRes.rows]),
                        [type |-> "SET_RECIPES", payload |-> proc[p].result])
           failed == apiReducer(api, [type |-> "SET_ERROR", payload |-> "message"])
       IN \/ /\ answered
             /\ api' = [(IF ok THEN stored ELSE failed)
                           EXCEPT !.load = "done", !.calls[p] = "none"]
          \/ api' = [failed EXCEPT !.load = "done", !.calls[p] = "none"]
    /\ UNCHANGED <<server, engine, local>>

\* what the user types into the ingredient field of the API-backed client
ApiNameInputs == {<<"a">>, <<"b", " ">>, <<" ">>}

\* addIngredient of IngredientManager up to its await: nothing is sent for an
\* empty name or for a name the list already holds
apiAddIngredient(p, typed) ==
    LET ingredientName == Trim(typed)
    IN /\ TabsShown(api) /\ api.calls[p] = "none"
       /\ Truthy(ingredientName)
       /\ ~\E k \in 1..Len(api.ingredients) :
              toLowerCase(api.ingredients[k].name) = toLowerCase(ingredientName)
       /\ PostIngredientRequest(p, Str(ingredientName))
       /\ api' = [api EXCEPT !.calls[p] = "addIngredient"]
       /\ UNCHANGED <<engine, local>>

\* removeIngredient up to its await: the trash button of a listed ingredient
apiRemoveIngredient(p, k) ==
    /\ TabsShown(api) /\ api.calls[p] = "none"
    /\ k \in 1..Len(api.ingredients)
    /\ DeleteIngredientRequest(p, IdToString(api.ingredients[k].id))
    /\ api' = [api EXCEPT !.calls[p] = "removeIngredient"]
    /\ UNCHANGED <<engine, local>>

\* the recipe form when Save is pressed: filled in, and with a name of spaces
ApiFormInputs ==
    {[name |-> n, instructions |-> <<"a">>,
      ingredients |-> <<RecipeIngredient(<<" ", "a">>, <<"1">>, <<>>),
                        RecipeIngredient(<<" ">>, <<>>, <<>>)>>] : n \in {<<"b">>, <<" ">>}}

\* saveRecipe of RecipeCreator up to its await: nothing is sent when a field
\* is empty or no row has a name and a quantity, and the button is disabled
\* while a save is under way (isSaving)
apiSaveRecipe(p, f) ==
    LET trimmed == [k \in 1..Len(f.ingredients) |->
                      RecipeIngredient(Trim(f.ingredients[k].name),
                                       Trim(f.ingredients[k].quantity),
                                       Trim(f.ingredients[k].unit))]
        validIngredients ==
            SelectSeq(trimmed, LAMBDA ing : Truthy(ing.name) /\ Truthy(ing.quantity))
        recipeData ==
            [NoBody EXCEPT
                !.name = Str(Trim(f.name)),
                !.instructions = Str(Trim(f.instructions)),
                !.ingredients = ArrayOf([k \in 1..Len(validIngredients) |->
                    Entry(Str(validIngredients[k].name), Str(validIngredients[k].quantity),
                          Str(validIngredients[k].unit))])]
    IN /\ TabsShown(api) /\ api.calls[p] = "none"
       /\ \A q \in Procs : api.calls[q] # "saveRecipe"
       /\ Truthy(f.name) /\ Truthy(f.instructions)
       /\ \E k \in 1..Len(f.ingredients) :
             Truthy(f.ingredients[k].name) /\ Truthy(f.ingredients[k].quantity)
       /\ Len(validIngredients) # 0
       /\ PostRecipeRequest(p, recipeData)
       /\ api' = [api EXCEPT !.calls[p] = "saveRecipe"]
       /\ UNCHANGED <<engine, local>>

\* removeRecipe up to its await: the delete button of a listed recipe
apiRemoveRecipe(p, k) ==
    /\ TabsShown(api) /\ api.calls[p] = "none"
    /\ k \in 1..Len(api.recipes)
    /\ DeleteRecipeRequest(p, IdToString(api.recipes[k].id))
    /\ api' = [api EXCEPT !.calls[p] = "removeRecipe"]
    /\ UNCHANGED <<engine, local>>

\* the action each of the four operations dispatches for the response of
\* handler p: the row or recipe of the 201 body, or the id that was passed
Dispatched(p) ==
    LET r == proc[p]
        items == r.body.ingredients.items
    IN CASE api.calls[p] = "addIngredient" ->
              [type |-> "ADD_INGREDIENT",
               payload |-> [id |-> r.newId, name |-> Trim(r.body.name.s)]]
         [] api.calls[p] = "removeIngredient" ->
              [type |-> "REMOVE_INGREDIENT", payload |-> ParseInt(r.body.id)]
         [] api.calls[p] = "saveRecipe" ->
              [type |-> "ADD_RECIPE",
               payload |-> [id |-> r.newId, name |-> Trim(r.body.name.s),
                            instructions |-> Trim(r.body.instructions.s),
                            is_custom |-> TRUE,
                            ingredients |-> [k \in 1..Len(items) |->
                                RecipeIngredient(Trim(items[k].name.s),
                                                 Trim(items[k].quantity.s),
                                                 TrimmedUnit(items[k].unit))]]]
         [] OTHER -> [type |-> "REMOVE_RECIPE", payload |-> ParseInt(r.body.id)]

\* the four operations after their await: a response that is ok is
\* dispatched; one that is not, or a fetch that was rejected, throws into the
\* catch, which alerts.  A handler that sent no response leaves the operation
\* waiting.
Answered(p) ==
    /\ api.calls[p] \in {"addIngredient", "removeIngredient", "saveRecipe", "removeRecipe"}
    /\ \/ /\ proc[p].pc = "done" /\ proc[p].status # 0
          /\ api' = IF ResponseOk(proc[p].status)
                    THEN [apiReducer(api, Dispatched(p)) EXCEPT !.calls[p] = "none"]
                    ELSE [api EXCEPT !.calls[p] = "none", !.alerts = @ + 1]
       \/ api' = [api EXCEPT !.calls[p] = "none", !.alerts = @ + 1]
    /\ UNCHANGED <<server, engine, local>>

\* the page once fetchData has stored what the server of InitApi holds
LoadedApi ==
    [NoApi EXCEPT
        !.ingredients = <<[id |-> 1, name |-> <<"a">>]>>,
        !.recipes = <<WithIngredients(StoredRecipe,
                        <<CHOOSE r \in StoredIngredients : r.id = 2,
                          CHOOSE r \in StoredIngredients : r.id = 3>>)>>,
        !.loading = FALSE,
        !.load = "done",
        !.ingredientsRes = [status |-> 200, rows |-> <<[id |-> 1, name |-> <<"a">>]>>]]

\* the page is opened, or was opened and has loaded, against a server that
\* stores an ingredient and a custom recipe
InitApi ==
    /\ ingredients = {[id |-> 1, name |-> <<"a">>]}
    /\ ingredients_id_seq = 1
    /\ recipes = {StandardRecipe, StoredRecipe}
    /\ recipes_id_seq = 2
    /\ recipe_ingredients = StandardIngredients \cup StoredIngredients
    /\ recipe_ingredients_id_seq = 3
    /\ conn = [p \in Procs |-> NoConn]
    /\ proc = [p \in Procs |-> Idle]
    /\ nreq = 0
    /\ engine = NoEngine /\ local = NoLocal
    /\ api \in {NoApi, LoadedApi}

NextApi ==
    \/ ListIngredients
    \/ \E p \in Procs :
        \/ fetchData(p)
        \/ fetchDataSettled(p)
        \/ \E typed \in ApiNameInputs : apiAddIngredient(p, typed)
        \/ \E k \in 1..MaxOwned : apiRemoveIngredient(p, k)
        \/ \E f \in ApiFormInputs : apiSaveRecipe(p, f)
        \/ \E k \in 1..MaxRecipes : apiRemoveRecipe(p, k)
        \/ Answered(p)
        \/ PostIngredientCheck(p)
        \/ PostIngredientInsert(p)
        \/ DeleteIngredientQuery(p)
        \/ ListRecipesSelect(p)
        \/ ListRecipesIngredients(p)
        \/ PostRecipeConnect(p)
        \/ PostRecipeBegin(p)
        \/ PostRecipeInsertRecipe(p)
        \/ PostRecipeInsertIngredient(p)
        \/ PostRecipeCommit(p)
        \/ PostRecipeRollback(p)
        \/ DeleteRecipeConnect(p)
        \/ DeleteRecipeBegin(p)
        \/ DeleteRecipeSelect(p)
        \/ DeleteRecipeRefuse(p)
        \/ DeleteRecipeIngredients(p)
        \/ DeleteRecipeRow(p)
        \/ DeleteRecipeCommit(p)
        \/ DeleteRecipeRollback(p)

SpecApi == InitApi /\ [][NextApi]_vars

Next == NextIngredients \/ NextRecipes

Spec == Init /\ [][Next]_vars

\* ======================================================== ingredient claims
\* two names that differ only in letter case or in leading/trailing whitespace
SameIgnoringCaseAndSpace(s1, s2) == LOWER(Trim(s1)) = LOWER(Trim(s2))

IsAdd(p) == proc[p].op = "addIngredient"
Finished(p) == proc[p].pc = "done"

\* C1: two addIngredient requests for the same name, neither hit by a storage
\* failure and the name stored by no earlier request: exactly one of them
\* answers 201 and the other answers 409, whatever the interleaving of their
\* duplicate checks and inserts.
C1_ConcurrentAddOneWinsOtherDuplicate ==
    \A p, q \in Procs :
        ( /\ p # q
          /\ IsAdd(p) /\ IsAdd(q) /\ Finished(p) /\ Finished(q)
          /\ proc[p].body.name = proc[q].body.name
          /\ ~InvalidIngredientName(proc[p].body.name)
          /\ proc[p].err # "storage" /\ proc[q].err # "storage"
          /\ \A r \in ingredients :
                SameIgnoringCaseAndSpace(r.name, proc[p].body.name.s)
                    => r.id \in {proc[p].newId, proc[q].newId} )
        => {proc[p].status, proc[q].status} = {201, 409}

\* C2: no two stored ingredients have names equal ignoring case, and every
\* stored name is trimmed and non-empty.
C2_IngredientNamesUniqueTrimmedNonEmpty ==
    /\ \A r1, r2 \in ingredients :
          r1 # r2 => LOWER(r1.name) # LOWER(r2.name)
    /\ \A r \in ingredients : r.name = Trim(r.name) /\ r.name # <<>>

\* C3: a duplicate check that runs while a name equal up to case and
\* surrounding whitespace is stored answers 409 and stores nothing; an insert
\* that runs while no such name is stored answers 201 and stores the trimmed
\* name (storage failures aside).  Hence of two such names added one after the
\* other, the first is stored and the second is the duplicate.
C3_SequentialAddSecondIsDuplicate ==
    [][\A p \in Procs :
        LET r == proc[p]
            r2 == proc'[p]
            stored == \E row \in ingredients :
                         SameIgnoringCaseAndSpace(row.name, r.body.name.s)
        IN (r.op = "addIngredient" /\ r2 # r /\ r2.err # "storage") =>
             /\ (r.pc = "check" /\ stored) =>
                   /\ r2.pc = "done" /\ r2.status = 409
                   /\ ingredients' = ingredients
             /\ (r.pc = "insert" /\ ~stored) =>
                   /\ r2.pc = "done" /\ r2.status = 201
                   /\ ingredients' = ingredients \cup
                         {[id |-> r2.newId, name |-> Trim(r.body.name.s)]}
                   /\ \A row \in ingredients : row.id # r2.newId
      ]_vars

\* the second of two adds was refused: the names differ as strings, agree up
\* to case and whitespace, and the row of the first is the only one stored
C3_Witness ==
    \E p, q \in Procs :
        /\ IsAdd(p) /\ IsAdd(q) /\ Finished(p) /\ Finished(q)
        /\ proc[p].status = 201 /\ proc[q].status = 409
        /\ proc[p].body.name # proc[q].body.name
        /\ SameIgnoringCaseAndSpace(proc[p].body.name.s, proc[q].body.name.s)
        /\ ingredients = {[id |-> proc[p].newId, name |-> Trim(proc[p].body.name.s)]}

\* C13: deleteIngredient of an id no ingredient has answers 404 and changes
\* nothing; otherwise it removes exactly the one row with that id, answers 200
\* with the removed record, and leaves every recipe ingredient row stored,
\* whether or not one of them carries the same name (storage failures aside).
C13_DeleteIngredientNotFoundOrRemoved ==
    [][\A p \in Procs :
        LET r == proc[p]
            r2 == proc'[p]
            hit == {x \in ingredients : x.id = ParseInt(r.body.id)}
        IN (r.op = "deleteIngredient" /\ r.pc = "delete" /\ r2 # r
                /\ r2.err # "storage") =>
             /\ r2.pc = "done"
             /\ recipe_ingredients' = recipe_ingredients
             /\ IF hit = {}
                THEN r2.status = 404 /\ ingredients' = ingredients
                ELSE /\ r2.status = 200
                     /\ Cardinality(hit) = 1
                     /\ ingredients' = ingredients \ hit
                     /\ \A x \in hit : r2.result = <<x>>
      ]_vars

\* an ingredient was removed while a recipe ingredient row carries its name
C13_Witness ==
    \E p \in Procs :
        /\ proc[p].op = "deleteIngredient" /\ Finished(p) /\ proc[p].status = 200
        /\ Len(proc[p].result) = 1
        /\ \A x \in ingredients : x.id # proc[p].result[1].id
        /\ \E ri \in recipe_ingredients : LOWER(ri.name) = LOWER(proc[p].result[1].name)

\* ============================================================ recipe claims
IsCreate(p) == proc[p].op = "createRecipe"
IsDelete(p) == proc[p].op = "deleteRecipe"

\* a text field that is missing or a string that is empty after trimming
BlankText(v) == v.t = "undefined" \/ (v.t = "string" /\ Trim(v.s) = <<>>)

RecipeRowsOf(id) == {r \in recipes : r.id = id}
IngredientRowsOf(id) == {r \in recipe_ingredients : r.recipe_id = id}

\* C4: createRecipe is all-or-nothing.  No step of a createRecipe request
\* changes the committed recipes or recipe_ingredients tables, except the
\* COMMIT that answers 201, which adds the recipe row and one row per
\* ingredient of the request together; a request that fails at any step
\* therefore leaves both tables as they were.
C4_CreateRecipeAllOrNothing ==
    [][\A p \in Procs :
        LET r == proc[p]
            r2 == proc'[p]
            items == r.body.ingredients.items
            added == recipe_ingredients' \ recipe_ingredients
        IN (r.op = "createRecipe" /\ r.pc # "done" /\ r2 # r) =>
             IF r2.status = 201
             THEN /\ recipes' = recipes \cup
                        {[id |-> r.newId, name |-> Trim(r.body.name.s),
                          instructions |-> Trim(r.body.instructions.s),
                          is_custom |-> TRUE]}
                  /\ RecipeRowsOf(r.newId) = {}
                  /\ recipe_ingredients \subseteq recipe_ingredients'
                  /\ Cardinality(added) = Len(items)
                  /\ \A row \in added : row.recipe_id = r.newId
                  /\ \A k \in 1..Len(items) : \E row \in added :
                        /\ row.name = Trim(items[k].name.s)
                        /\ row.quantity = Trim(items[k].quantity.s)
             ELSE /\ recipes' = recipes
                  /\ recipe_ingredients' = recipe_ingredients
      ]_vars

\* a createRecipe request failed after its recipe row and an ingredient row
\* were written, was answered 500, and none of its rows is stored
C4_Witness ==
    \E p \in Procs :
        /\ IsCreate(p) /\ Finished(p) /\ proc[p].status = 500
        /\ proc[p].err = "storage"
        /\ proc[p].at \in {"insertIngredient", "commit"}
        /\ proc[p].newId # 0 /\ proc[p].i > 1
        /\ RecipeRowsOf(proc[p].newId) = {}
        /\ IngredientRowsOf(proc[p].newId) = {}

\* the request of handler p met no exception: no storage failure, no TypeError
NoException(p) == proc[p].err = "none"

\* no row written for the request of handler p is stored
NoRowsOf(p) ==
    RecipeRowsOf(proc[p].newId) = {} /\ IngredientRowsOf(proc[p].newId) = {}

\* C5: a createRecipe request whose name or instructions is missing or empty
\* after trimming is answered 400 (unless an exception is thrown) and none of its
\* rows is ever stored.
C5_BlankNameOrInstructionsRejected ==
    \A p \in Procs :
        (IsCreate(p) /\ (BlankText(proc[p].body.name) \/ BlankText(proc[p].body.instructions)))
        => /\ (Finished(p) /\ NoException(p)) => proc[p].status = 400
           /\ NoRowsOf(p)

\* C6: every stored recipe ingredient row has a name and a quantity that are
\* non-empty after trimming and a unit that is a string.
C6_IngredientRowsNonEmpty ==
    \A row \in recipe_ingredients :
        /\ Trim(row.name) # <<>>
        /\ Trim(row.quantity) # <<>>
        /\ row.unit \in Seq(Chars)

\* C7: a createRecipe request with an empty ingredient list is answered 400
\* (unless an exception is thrown),
\* and every stored custom recipe has at least one ingredient row.
C7_EmptyIngredientListRejected ==
    /\ \A p \in Procs :
          (IsCreate(p) /\ proc[p].body.ingredients.isArray
                       /\ proc[p].body.ingredients.items = <<>>)
          => ((Finished(p) /\ NoException(p)) => proc[p].status = 400)
    /\ \A r \in recipes : r.is_custom => IngredientRowsOf(r.id) # {}

\* an entry of the ingredient list that has no quantity
MissingQuantity(e) == ~e.null /\ e.quantity.t = "undefined"

\* C8: a createRecipe request whose ingredient list has an entry without
\* quantity is answered 400 and none of its rows is ever stored, whatever its
\* other entries are.
C8_MissingQuantityRejected ==
    \A p \in Procs :
        (IsCreate(p) /\ \E k \in 1..Len(proc[p].body.ingredients.items) :
                            MissingQuantity(proc[p].body.ingredients.items[k]))
        => /\ Finished(p) /\ proc[p].status = 400
           /\ NoRowsOf(p)

\* C9: deleteRecipe is one transaction.  No step of a deleteRecipe request
\* changes the committed tables, except the COMMIT that answers 200, which
\* removes the recipe row and all of its ingredient rows together; a failure
\* after the ingredient rows were deleted leaves the recipe and its rows stored.
C9_DeleteRecipeIsOneTransaction ==
    [][\A p \in Procs :
        LET r == proc[p]
            r2 == proc'[p]
            id == ParseInt(r.body.id)
        IN (r.op = "deleteRecipe" /\ r.pc # "done" /\ r2 # r) =>
             IF r2.status = 200
             THEN /\ RecipeRowsOf(id) # {}
                  /\ \A row \in RecipeRowsOf(id) : row.is_custom
                  /\ recipes' = recipes \ RecipeRowsOf(id)
                  /\ recipe_ingredients' = recipe_ingredients \ IngredientRowsOf(id)
             ELSE /\ recipes' = recipes
                  /\ recipe_ingredients' = recipe_ingredients
      ]_vars

\* a deleteRecipe request failed at the DELETE of the recipe row, after its
\* ingredient rows were deleted, was answered 500, and the custom recipe and
\* its ingredient rows are stored
C9_Witness ==
    \E p \in Procs :
        /\ IsDelete(p) /\ Finished(p) /\ proc[p].status = 500
        /\ proc[p].err = "storage" /\ proc[p].at = "deleteRecipe"
        /\ \E row \in RecipeRowsOf(ParseInt(proc[p].body.id)) : row.is_custom
        /\ IngredientRowsOf(ParseInt(proc[p].body.id)) # {}

\* C10: deleteRecipe answers 400 to an id that is not numeric, 404 when the
\* SELECT finds no recipe with the id, 403 when the recipe found is a standard
\* one (storage failures aside), and no step of a request that is not
\* answered 200 changes a row of recipes or recipe_ingredients.
C10_DeleteRecipeRefusals ==
    [][\A p \in Procs :
        LET r == proc[p]
            r2 == proc'[p]
            id == ParseInt(r2.body.id)
        IN (r2.op = "deleteRecipe" /\ r2 # r) =>
             /\ r2.status # 200 =>
                   /\ recipes' = recipes
                   /\ recipe_ingredients' = recipe_ingredients
             /\ r.pc = "done" =>
                   IF IsNumericId(r2.body.id) THEN r2.pc # "done"
                   ELSE r2.pc = "done" /\ r2.status = 400
             /\ (r.pc = "select" /\ r2.err = "none") =>
                   /\ RecipeRowsOf(id) = {} => r2.pc = "rollbackNotFound"
                   /\ (\E row \in RecipeRowsOf(id) : ~row.is_custom)
                         => r2.pc = "rollbackForbidden"
             /\ (r.pc = "rollbackNotFound" /\ r2.err = "none") =>
                   r2.pc = "done" /\ r2.status = 404
             /\ (r.pc = "rollbackForbidden" /\ r2.err = "none") =>
                   r2.pc = "done" /\ r2.status = 403
      ]_vars

\* one request was answered 403 for the standard recipe, which is stored with
\* its ingredient rows, and another 404 for an id no recipe has
C10_Witness ==
    \E p, q \in Procs :
        /\ IsDelete(p) /\ Finished(p) /\ proc[p].status = 403
        /\ StandardRecipe \in RecipeRowsOf(ParseInt(proc[p].body.id))
        /\ StandardIngredients \subseteq recipe_ingredients
        /\ IsDelete(q) /\ Finished(q) /\ proc[q].status = 404
        /\ RecipeRowsOf(ParseInt(proc[q].body.id)) = {}

\* =========================================================== storage claims
StandardRecipes == {r \in recipes : ~r.is_custom}

\* C11: no step of any addIngredient, deleteIngredient, createRecipe or
\* deleteRecipe request adds, removes or changes a standard recipe or one of
\* its ingredient rows: the recipe rows a step adds or removes are custom ones.
C11_StandardRecipesReadOnly ==
    [][/\ \A r \in recipes' \ recipes : r.is_custom
       /\ \A r \in recipes \ recipes' : r.is_custom
       /\ \A r \in StandardRecipes :
            {ri \in recipe_ingredients' : ri.recipe_id = r.id} = IngredientRowsOf(r.id)
      ]_vars

\* a custom recipe was created and deleted again beside the standard recipe,
\* which is stored with its ingredient rows
C11_Witness ==
    \E p, q \in Procs :
        /\ IsCreate(p) /\ Finished(p) /\ proc[p].status = 201
        /\ IsDelete(q) /\ Finished(q) /\ proc[q].status = 200
        /\ ParseInt(proc[q].body.id) = proc[p].newId
        /\ recipes = {StandardRecipe}
        /\ recipe_ingredients = StandardIngredients

\* C12: every step of an addIngredient or deleteIngredient request leaves the
\* recipes and recipe ingredient rows unchanged, committed and uncommitted, and
\* every step of a createRecipe or deleteRecipe request leaves the ingredients
\* unchanged, whether the request succeeds or fails.
C12_InventoryAndRecipesIsolated ==
    [][\A p \in Procs :
        LET r2 == proc'[p]
        IN r2 # proc[p] =>
             /\ r2.op \in {"addIngredient", "deleteIngredient"} =>
                   /\ recipes' = recipes
                   /\ recipe_ingredients' = recipe_ingredients
                   /\ conn' = conn
             /\ r2.op \in {"createRecipe", "deleteRecipe"} =>
                   ingredients' = ingredients
      ]_vars

\* an ingredient named like a stored recipe ingredient was added and a recipe
\* was created, both answered 201: the inventory holds the one ingredient, and
\* the recipe rows are those of the standard and of the new recipe
C12_Witness ==
    \E p, q \in Procs :
        /\ IsAdd(p) /\ Finished(p) /\ proc[p].status = 201
        /\ ingredients = {[id |-> proc[p].newId, name |-> Trim(proc[p].body.name.s)]}
        /\ \E ri \in StandardIngredients : LOWER(ri.name) = LOWER(Trim(proc[p].body.name.s))
        /\ IsCreate(q) /\ Finished(q) /\ proc[q].status = 201
        /\ recipes = {StandardRecipe} \cup RecipeRowsOf(proc[q].newId)
        /\ IngredientRowsOf(proc[q].newId) # {}
        /\ StandardIngredients \subseteq recipe_ingredients

\* C20: every createRecipe and deleteRecipe request that has finished was
\* answered (requests whose validation throws aside), and one that met a
\* storage failure, at whatever step, was answered 500.
C20_StorageFailureReported ==
    \A p \in Procs :
        ((IsCreate(p) \/ IsDelete(p)) /\ Finished(p)) =>
            /\ proc[p].err # "TypeError" => proc[p].status # 0
            /\ proc[p].err = "storage" => proc[p].status = 500

\* ============================================================== list claims
IsList(p) == proc[p].op = "listRecipes"

\* the ingredient rows in the order in which createRecipe inserted them: the
\* INSERT loop draws their ids from the sequence one after the other
InCreationOrder(rows) ==
    CHOOSE f \in AnyOrder(rows) : \A i, j \in 1..Len(f) : i < j => f[i].id < f[j].id

\* C14: the ingredient list that listRecipes attaches to a recipe holds the
\* recipe's stored ingredients, which are those it was created with, in the
\* order in which they were given to createRecipe.
C14_ListedIngredientsInCreationOrder ==
    [][\A p \in Procs :
        LET r == proc[p]
            r2 == proc'[p]
            e == r2.result[Len(r2.result)]
            given == InCreationOrder(IngredientRowsOf(e.id))
        IN (r.op = "listRecipes" /\ r2.op = "listRecipes"
                /\ Len(r2.result) = Len(r.result) + 1) =>
             e.ingredients = WithIngredients(e, given).ingredients
      ]_vars

\* C15: listRecipes with the filter 'all' selects every stored recipe, standard
\* and custom, and with the filter 'custom-only' exactly the custom ones
\* (storage failures aside).
C15_ListRecipesFilters ==
    [][\A p \in Procs :
        LET r == proc[p]
            r2 == proc'[p]
            selected == {r2.rows[k] : k \in 1..Len(r2.rows)}
        IN (r.op = "listRecipes" /\ r.pc = "selectRecipes" /\ r2.err = "none") =>
             selected = IF r.filter = "all" THEN recipes
                        ELSE {x \in recipes : x.is_custom}
      ]_vars

\* ====================================================== availability claims
EqualIgnoringCase(s, t) ==
    Len(s) = Len(t) /\ \A k \in 1..Len(s) : LowerChar(s[k]) = LowerChar(t[k])

OwnedNames == {engine.ingredients[j].name : j \in 1..Len(engine.ingredients)}
NeededNames(recipe) == {recipe.ingredients[k].name : k \in 1..Len(recipe.ingredients)}

\* every ingredient name of the recipe is, ignoring case, the name of an
\* ingredient of the inventory
AllNamesOwned(recipe) ==
    \A n \in NeededNames(recipe) : \E o \in OwnedNames : EqualIgnoringCase(n, o)

Shown(list) == {list[k] : k \in 1..Len(list)}

\* the recipes are shown with the makeable switch set and no search term:
\* the recipes shown are those for which canMake is true
MakeableShown ==
    engine.shown = "recipes" /\ engine.showMakeable /\ engine.search = <<>>

\* C16: canMake is true of a recipe exactly when every ingredient name of the
\* recipe equals, ignoring case, the name of an ingredient of the inventory;
\* two recipes with the same ingredient names get the same answer whatever
\* their quantities and units, and a recipe without ingredients is makeable.
C16_CanMakeIffAllNamesOwned ==
    MakeableShown =>
        \A k \in 1..Len(engine.recipes) :
            LET r == engine.recipes[k]
            IN /\ r \in Shown(engine.filteredRecipes) <=> AllNamesOwned(r)
               /\ r.ingredients = <<>> => r \in Shown(engine.filteredRecipes)
               /\ \A j \in 1..Len(engine.recipes) :
                     NeededNames(engine.recipes[j]) = NeededNames(r) =>
                        (engine.recipes[j] \in Shown(engine.filteredRecipes)
                            <=> r \in Shown(engine.filteredRecipes))

\* a recipe without ingredients and a recipe whose two names are owned in
\* the other case are both shown as makeable
C16_Witness ==
    /\ MakeableShown
    /\ Len(engine.recipes) = 2
    /\ engine.recipes[1].ingredients = <<>>
    /\ engine.recipes[2].ingredients =
          <<RecipeIngredient(<<"a">>, <<"2">>, <<>>), RecipeIngredient(<<"B">>, <<"1">>, <<"a">>)>>
    /\ OwnedNames = {<<"A">>, <<"b">>}
    /\ engine.filteredRecipes = engine.recipes

\* the inventory without the ingredients whose ids are not in keep
SubInventory(keep) == SelectSeq(engine.ingredients, LAMBDA i : i.id \in keep)

\* C17: a recipe that is makeable with some of the ingredients of the
\* inventory is makeable with all of them.
C17_CanMakeMonotonic ==
    MakeableShown =>
        \A k \in 1..Len(engine.recipes) :
            \A keep \in SUBSET (1..Len(engine.ingredients)) :
                canMakeRecipe(engine.recipes[k], SubInventory(keep))
                    => engine.recipes[k] \in Shown(engine.filteredRecipes)

\* a recipe is makeable with the first ingredient of the inventory alone and
\* is shown as makeable with both, while another recipe is not makeable
C17_Witness ==
    /\ MakeableShown
    /\ Len(engine.ingredients) = 2 /\ Len(engine.recipes) = 2
    /\ engine.recipes[1].ingredients # <<>>
    /\ canMakeRecipe(engine.recipes[1], SubInventory({1}))
    /\ ~canMakeRecipe(engine.recipes[1], SubInventory({2}))
    /\ engine.filteredRecipes = <<engine.recipes[1]>>

\* the name contains the search term, ignoring case
ContainsIgnoringCase(name, term) ==
    \E k \in 0..(Len(name) - Len(term)) :
        EqualIgnoringCase(SubSeq(name, k + 1, k + Len(term)), term)

\* C18: filterRecipes returns, in the order of the input, exactly the recipes
\* whose name contains the search term ignoring case (if the term is not
\* empty) and that are makeable (if onlyMakeable is set), and the makeable
\* filter applied before the search filter gives the same list.
C18_FilterRecipesComposable ==
    engine.shown = "recipes" =>
        LET wanted(r) == /\ engine.search # <<>> => ContainsIgnoringCase(r.name, engine.search)
                         /\ engine.showMakeable => AllNamesOwned(r)
            makeable == IF engine.showMakeable
                        THEN SelectSeq(engine.recipes,
                                LAMBDA r : canMakeRecipe(r, engine.ingredients))
                        ELSE engine.recipes
            thenSearch == IF engine.search # <<>>
                          THEN SelectSeq(makeable, LAMBDA r : MatchesSearch(r, engine.search))
                          ELSE makeable
        IN /\ engine.filteredRecipes = SelectSeq(engine.recipes, wanted)
           /\ engine.filteredRecipes = thenSearch

\* with both filters on, one recipe is dropped by the search and the other,
\* whose name differs from the term in case, is shown
C18_Witness ==
    /\ engine.shown = "recipes" /\ engine.showMakeable /\ engine.search = <<"A", "b">>
    /\ Len(engine.recipes) = 2
    /\ engine.recipes[1].name = <<"a">> /\ AllNamesOwned(engine.recipes[1])
    /\ engine.recipes[2].name = <<"a", "B">> /\ engine.recipes[2].ingredients # <<>>
    /\ engine.filteredRecipes = <<engine.recipes[2]>>

\* a name in title case: the first letter of each word a capital, the others
\* small
TitleCase(name) ==
    [k \in 1..Len(name) |->
        IF k = 1 \/ name[k - 1] = " " THEN UpperChar(name[k]) ELSE LowerChar(name[k])]

\* the ingredient names of the recipes held
NamesInRecipes ==
    UNION {NeededNames(engine.recipes[k]) : k \in 1..Len(engine.recipes)}

NotOwned(n) == \A o \in OwnedNames : ~EqualIgnoringCase(Trim(n), o)

\* C19: the suggestions are exactly the title-cased forms of the ingredient
\* names of the recipes that are not owned ignoring case: no suggestion is
\* owned, every name that is not owned is there, and no two suggestions are
\* equal ignoring case.
C19_SuggestionsAreUnownedTitleCased ==
    engine.shown = "suggestions" =>
        LET list == engine.availableSuggestions
        IN /\ Shown(list) = {TitleCase(Trim(n)) : n \in {m \in NamesInRecipes : NotOwned(m)}}
           /\ \A x \in Shown(list) : \A o \in OwnedNames : ~EqualIgnoringCase(x, o)
           /\ \A n \in NamesInRecipes :
                 NotOwned(n) => \E x \in Shown(list) : EqualIgnoringCase(x, Trim(n))
           /\ \A i, j \in 1..Len(list) : i # j => ~EqualIgnoringCase(list[i], list[j])

\* ======================================================= concurrency claims
\* the entry that a step of a list request adds to its answer
ListedNow(p) == proc'[p].result[Len(proc'[p].result)]

\* a step of the list request p reads the ingredient rows of one recipe
ReadsIngredients(p) ==
    /\ proc[p].op = "listRecipes" /\ proc[p].pc = "selectIngredients"
    /\ Len(proc'[p].result) = Len(proc[p].result) + 1

\* the entry holds all ingredient rows that a stored recipe has in the
\* committed tables
CompleteList(e) ==
    \E r \in recipes :
        /\ r.id = e.id
        /\ \E rows \in AnyOrder({ri \in recipe_ingredients : ri.recipe_id = r.id}) :
              WithIngredients(r, rows).ingredients = e.ingredients

\* C22: every entry a listRecipes call returns, also while recipes are created
\* and deleted, holds the complete ingredient list its recipe has in a
\* committed state.  The rows of a recipe never change while it is stored, so
\* the committed state is the one the ingredient rows are read from.
C22_ListedIngredientsComplete ==
    [][\A p \in Procs : ReadsIngredients(p) => CompleteList(ListedNow(p))]_vars

\* C23: in every committed state, whatever createRecipe and deleteRecipe
\* calls succeeded or failed and however they interleaved, every recipe
\* ingredient row belongs to a recipe row that is stored.
C23_NoOrphanedIngredientRows ==
    \A ri \in recipe_ingredients : \E r \in recipes : r.id = ri.recipe_id

\* one handler created a recipe with ingredient rows and the other deleted it
C23_Witness ==
    \E p, q \in Procs :
        /\ IsCreate(p) /\ Finished(p) /\ proc[p].status = 201
        /\ proc[p].body.ingredients.items # <<>>
        /\ IsDelete(q) /\ Finished(q) /\ proc[q].status = 200
        /\ ParseInt(proc[q].body.id) = proc[p].newId

\* the positions at which a handler sends COMMIT or ROLLBACK as its last
\* statement
EndsTransaction == {"commit", "rollback", "rollbackNotFound", "rollbackForbidden"}

\* C24: a createRecipe or deleteRecipe call takes a connection once, gives it
\* back once, in the step in which it finishes and after COMMIT or ROLLBACK was
\* sent, on every path; a call that has finished holds no connection and has
\* no transaction open.
C24_ConnectionReleasedOnce ==
    [][\A p \in Procs :
        /\ proc'[p].pc = "done" => conn'[p] = NoConn
        /\ (~conn[p].held /\ conn'[p].held) => proc[p].pc = "connect"
        /\ (conn[p].held /\ ~conn'[p].held) =>
              /\ proc[p].pc \in EndsTransaction
              /\ proc'[p].pc = "done"
        /\ (conn[p].held /\ proc[p].pc # "done" /\ proc'[p].pc = "done") =>
              proc[p].pc \in EndsTransaction]_vars

\* a deleteRecipe was refused with 403 and a createRecipe whose COMMIT failed
\* was rolled back and answered 500; neither holds a connection
C24_Witness ==
    \E p, q \in Procs :
        /\ IsDelete(p) /\ Finished(p) /\ proc[p].status = 403
        /\ IsCreate(q) /\ Finished(q) /\ proc[q].status = 500 /\ proc[q].at = "commit"
        /\ conn[p] = NoConn /\ conn[q] = NoConn

AddsRecipe == Len(local'.customRecipes) = Len(local.customRecipes) + 1

\* every field of every ingredient row of the form is empty or whitespace
OnlyWhitespaceRows(f) ==
    \A k \in 1..Len(f.ingredients) :
        /\ Trim(f.ingredients[k].name) = <<>>
        /\ Trim(f.ingredients[k].quantity) = <<>>
        /\ Trim(f.ingredients[k].unit) = <<>>

\* C25: a custom recipe that saveRecipe adds has at least one ingredient, each
\* with a name and a quantity that are not empty after trimming, and a form
\* whose ingredient rows hold only whitespace adds no recipe.
C25_SavedRecipeHasIngredients ==
    [][/\ AddsRecipe =>
            LET r == local'.customRecipes[Len(local'.customRecipes)]
            IN /\ Len(r.ingredients) >= 1
               /\ \A k \in 1..Len(r.ingredients) :
                     /\ Trim(r.ingredients[k].name) # <<>>
                     /\ Trim(r.ingredients[k].quantity) # <<>>
       /\ OnlyWhitespaceRows(local.form) => ~AddsRecipe]_vars

IdsDistinct(list) == \A i, j \in 1..Len(list) : i # j => list[i].id # list[j].id

\* C29: the ingredients of the state have pairwise distinct ids and so have
\* the custom recipes, also after two adds at the same clock value, and no
\* step removes more than one entry of either list.
C29_LocalIdsDistinct ==
    [][/\ IdsDistinct(local'.ingredients) /\ IdsDistinct(local'.customRecipes)
       /\ Len(local'.ingredients) >= Len(local.ingredients) - 1
       /\ Len(local'.customRecipes) >= Len(local.customRecipes) - 1]_vars

\* ======================================================= quick-add claims
\* the names suggestIngredients offers for the recipes held when nothing is
\* owned
OfferedNames == Shown(availableSuggestions(engine.recipes, <<>>))

\* every name that was offered is in the inventory
EveryOfferedNameAdded ==
    \A x \in OfferedNames : \E o \in OwnedNames : EqualIgnoringCase(x, o)

\* C30: from any inventory and recipe collection, once every name offered by
\* suggestIngredients has been added to the inventory, the suggestion list is
\* empty and canMake is true for every recipe.
C30_AllAddedAllMakeable ==
    (engine.shown = "suggestions" /\ EveryOfferedNameAdded) =>
        /\ engine.availableSuggestions = <<>>
        /\ \A k \in 1..Len(engine.recipes) : AllNamesOwned(engine.recipes[k])

\* ======================================================= API client claims
\* the ingredients the client lists, as a set of rows
ListedIngredients == {api.ingredients[k] : k \in 1..Len(api.ingredients)}

\* the initial load stored its data and every operation of the client was
\* answered without an error
CompletedWithoutError ==
    /\ api.load = "done" /\ api.error = "null"
    /\ api.alerts = 0
    /\ \A p \in Procs : api.calls[p] = "none"

\* C26: once the initial load and every add/delete request of the client have
\* completed without error, the client lists exactly the ingredients the
\* server stores, also when the user added or deleted one during the load.
C26_ListEqualsServerIngredients ==
    CompletedWithoutError =>
        /\ ListedIngredients = ingredients
        /\ Len(api.ingredients) = Cardinality(ingredients)

\* C27: state.loading is true from the start of the initial load until the
\* data is stored or a load error is recorded, so the tabs are never shown
\* while the initial fetch is in flight.
C27_LoadingWhileFetchInFlight ==
    api.load = "awaiting" => api.loading /\ ~TabsShown(api)

\* an operation of the client on handler p ends in this step
OperationEnds(p) ==
    /\ api.calls[p] \in {"addIngredient", "removeIngredient", "saveRecipe", "removeRecipe"}
    /\ api'.calls[p] = "none"

\* the server answered the request of handler p with success and the
\* operation did not reach its catch
AnsweredWithSuccess(p) ==
    /\ proc[p].pc = "done" /\ proc[p].status \in 200..299
    /\ api'.alerts = api.alerts

ListsUnchanged == api'.ingredients = api.ingredients /\ api'.recipes = api.recipes

\* C28: addIngredient, removeIngredient, saveRecipe and removeRecipe change
\* the client's ingredients or recipes only after the server answered the
\* request with success; after an error answer or a failed request the
\* ingredients and recipes are unchanged.
C28_ChangedOnlyAfterSuccess ==
    [][ /\ \A p \in Procs :
             OperationEnds(p) /\ ~AnsweredWithSuccess(p) => ListsUnchanged
        /\ ~ListsUnchanged =>
              \/ api.load = "awaiting" /\ api'.load = "done"
              \/ \E p \in Procs : OperationEnds(p) /\ AnsweredWithSuccess(p) ]_vars

\* an ingredient the user typed was answered 201 and is listed, and no
\* operation has alerted
C28_Witness ==
    /\ api.alerts = 0
    /\ \E k \in 1..Len(api.ingredients) : api.ingredients[k].name = <<"b">>

====
